---- MODULE Spec2Model ----
(***************************************************************************)
(* The batch extraction engine of the MQL5 article extractor:              *)
(* BatchProcessor.process_urls (lib/batch_processor.py) driving            *)
(* MQL5Extractor.extract_article (lib/extractor.py), with the checkpoint   *)
(* file and the output tree as durable state that outlives a process.      *)
(*                                                                         *)
(* One behaviour is a history of runs.  Each run is one process that       *)
(* builds a BatchProcessor and calls process_urls once, as both command    *)
(* handlers of mql5_extract.py do.  A process can be killed at any step;   *)
(* the checkpoint file and the output tree are all that the next run sees. *)
(***************************************************************************)
EXTENDS Integers, Sequences, FiniteSets, TLC

\* ---------------------------------------------------------------- bounds
MaxLen == 2      \* longest input list given to process_urls
MaxRuns == 2     \* number of process_urls runs in one history
MaxAttempts == 3 \* largest config.retry.max_attempts tried by SpecAttempts
MaxBackoffAttempts == 11 \* config.retry.max_attempts of SpecBackoff
MaxLineLen == 3  \* longest line of a URLs file given to load_urls
MaxNameLen == 3  \* longest name of an archive member

\* ------------------------------------------------- configuration defaults
default_max_attempts == 3
min_word_count == 500
min_code_blocks == 1
login_popup_word_limit == 200
default_initial_backoff_seconds == 5
default_max_backoff_seconds == 60
default_exponential_base == 2
rate_limit_seconds == 2

\* ----------------------------------------------------------------- inputs
\* A URL is <<language segment, digits after "/articles/">>; the digits are
\* "" when the URL does not match /articles/(\d+).
URLS == { <<"en", "101">>, <<"en", "202">> }

extract_id_from_url(url) == IF url[2] = "" THEN "unknown" ELSE url[2]

\* the page of article 101 in another language: another URL, the same id
AliasUrls == { <<"ru", "101">> }

AllUrls == URLS \cup AliasUrls

ArticleIds == { extract_id_from_url(u) : u \in AllUrls }

\* the sequences of at most n elements of S
SeqsOf(S, n) == UNION { [ 1 .. k -> S ] : k \in 0 .. n }

\* the lists of at most n URLs, repetitions allowed
RECURSIVE SeqsUpTo(_)
SeqsUpTo(n) ==
    IF n = 0 THEN { <<>> }
    ELSE LET shorter == SeqsUpTo(n - 1)
         IN  shorter \cup { Append(s, u) : s \in { t \in shorter : Len(t) = n - 1 }, u \in URLS }

InputLists == SeqsUpTo(MaxLen)

\* the lists one URL longer than those
LongLists == { us \in SeqsUpTo(MaxLen + 1) : Len(us) = MaxLen + 1 }

\* Words a page body is made of, and str.lower on them and on the
\* extensions of file names.
BodyWords == { "Login", "login", "PASSWORD", "trading" }

lower(w) ==
    CASE w = "Login" -> "login"
      [] w = "PASSWORD" -> "password"
      [] w = "EX5" -> "ex5"
      [] OTHER -> w

\* What _extract_with_playwright returns when it does not raise: success is
\* set before the return; has_content is false when the page has no .content
\* element, which leaves main_content None and word_count 0; otherwise
\* main_content is the text of the element (here the set of its words) and
\* word_count the number of its words: none, or as many as the default
\* threshold asks for.
\* user_id is the id in the article:author meta tag, "unknown" when the page
\* has none (line 280); images is the list of the images of the body, each
\* with its local_path, NoPath (None in the code) when it was not downloaded.
\* Here: pages without author tag and without images.
Records ==
    { r \in [ success : {TRUE}, word_count : {0, 500}, code_blocks : {0, 1},
              has_content : BOOLEAN,
              main_content : { {}, {"trading"}, {"Login", "PASSWORD", "trading"} },
              user_id : { "unknown" }, images : { << >> } ] :
        /\ ~r.has_content => r.main_content = {}
        /\ r.word_count > 0 <=> r.main_content # {} }

NoPath == ""
LocalImage == [ local_path |-> "images/image.png" ]
FailedImage == [ local_path |-> NoPath ]

\* records of pages that pass the default validation, with authors and images
RichRecords ==
    { [ success |-> TRUE, word_count |-> 500, code_blocks |-> 1, has_content |-> TRUE,
        main_content |-> {"trading"}, user_id |-> "29210372", images |-> << >> ],
      [ success |-> TRUE, word_count |-> 600, code_blocks |-> 2, has_content |-> TRUE,
        main_content |-> {"trading"}, user_id |-> "777",
        images |-> << LocalImage, FailedImage >> ],
      [ success |-> TRUE, word_count |-> 500, code_blocks |-> 1, has_content |-> TRUE,
        main_content |-> {"trading"}, user_id |-> "unknown",
        images |-> << FailedImage >> ] }

\* config.validation
ValidationDefaults ==
    [ min_word_count |-> min_word_count, min_code_blocks |-> min_code_blocks,
      reject_login_popup |-> TRUE ]

\* config.retry without max_attempts
RetryDefaults ==
    [ initial_backoff_seconds |-> default_initial_backoff_seconds,
      max_backoff_seconds |-> default_max_backoff_seconds,
      exponential_base |-> default_exponential_base ]

\* ------------------------------------------------------------------ state
VARIABLES
    checkpoint_file,    \* [kind, processed_urls]: the file named by config.batch.checkpoint_file
    disk,               \* article id -> names of the files in <output>/<user>/article_<id>/
    pc,                 \* position of the process
    urls,               \* argument of process_urls
    resume,             \* argument of process_urls
    continue_on_error,  \* config.batch.continue_on_error of this run
    max_attempts,       \* config.retry.max_attempts
    retry,              \* the other fields of config.retry
    validation,         \* config.validation
    run_limit,          \* number of runs this history may hold
    idx,                \* i of "for i, url in enumerate(urls, 1)"
    processed_urls,     \* the local set of process_urls
    stats,              \* self.stats counters
    failed_articles,    \* self.stats["failed_articles"]
    attempt,            \* attempt of extract_article's for loop
    sleeping,           \* seconds of the asyncio.sleep the process is in, 0 when in none
    val_record,         \* argument of a direct call of _validate_extraction
    val_outcome,        \* how that call ended
    content_stats,      \* self.stats["content_stats"], users as the set it is during the run
    users_report,       \* the list that replaces the set of users at line 161
    outstanding,        \* Extraction Port invocations that have neither returned nor raised
    cli,                \* a run of mql5_extract.py: arguments, position, exit code, effects
    attachments,        \* a run of the attachment extraction: archive, files written, manifest
    \* history variables, read by the properties only
    run_no,             \* runs started so far
    ckpt_at_start,      \* what a load of the checkpoint file gave when the run started
    called,             \* URLs passed to the Extraction Port in this run
    first_call,         \* the first of them, <<>> before any call
    calls_item,         \* Extraction Port invocations of the current extract_article call
    port_result,        \* how the last Extraction Port invocation of the item ended
    last_outcome,       \* how the current extract_article call ended
    early_abort,        \* the loop was left by the break of line 145
    extracted,          \* URL -> number of extract_article calls that returned a record
    ever_failed,        \* URLs that some run of this history counted as failed
    last_complete,      \* content of the checkpoint file when it was last complete
    outcomes,           \* how each handled position of the list ended, in order
    written,            \* positions after which _save_checkpoint completed in this run
    rate_waits,         \* rate limit sleeps since the port was last left, -1 before any call
    prior,              \* what this run repeats: the run before it, when on the same list
    accepted,           \* what _update_stats reads of each record it was given, in order
    reports             \* the non-empty lists of users that runs of this history returned

vars == << checkpoint_file, disk, pc, urls, resume, continue_on_error,
           max_attempts, retry, validation, run_limit, idx,
           processed_urls, stats, failed_articles, attempt, sleeping,
           val_record, val_outcome, run_no,
           ckpt_at_start, called, first_call, calls_item, port_result,
           last_outcome, early_abort, extracted, ever_failed, last_complete,
           outcomes, written, rate_waits, prior,
           content_stats, users_report, accepted, reports, outstanding, cli,
           attachments >>

\* everything but the run of the command line program
engine == << checkpoint_file, disk, pc, urls, resume, continue_on_error,
             max_attempts, retry, validation, run_limit, idx,
             processed_urls, stats, failed_articles, attempt, sleeping,
             val_record, val_outcome, run_no,
             ckpt_at_start, called, first_call, calls_item, port_result,
             last_outcome, early_abort, extracted, ever_failed, last_complete,
             outcomes, written, rate_waits, prior,
             content_stats, users_report, accepted, reports, outstanding >>

durable == << checkpoint_file, disk >>
config == << max_attempts, retry, validation, run_limit >>
gate == << val_record, val_outcome >>
totals == << content_stats, users_report, accepted, reports >>
memory == << urls, resume, continue_on_error, idx, processed_urls, stats,
             failed_articles, attempt, sleeping >>

\* no process is running
IdlePcs == { "idle", "returned", "killed", "crashed" }

NoUrl == <<>>

ZeroStats == [ total |-> 0, successful |-> 0, failed |-> 0, skipped |-> 0 ]

CurUrl == urls[idx]

\* ------------------------------------------------------- checkpoint store
AbsentFile == [ kind |-> "absent", processed_urls |-> {} ]
TruncatedFile == [ kind |-> "truncated", processed_urls |-> {} ]
CompleteFile(s) == [ kind |-> "complete", processed_urls |-> s ]

\* Files that are no checkpoint: JSON that is not an object, an object whose
\* processed_urls is null or a number, an object whose processed_urls is a
\* list holding a list or an object.
NotAnObjectFile == [ kind |-> "not_object", processed_urls |-> {} ]
NoListFile == [ kind |-> "no_list", processed_urls |-> {} ]
UnhashableFile == [ kind |-> "unhashable", processed_urls |-> {} ]

\* what the checkpoint path can hold before the first run
LeftoverFiles == { AbsentFile, TruncatedFile, NotAnObjectFile, NoListFile, UnhashableFile }

\* _load_checkpoint followed by set(checkpoint.get("processed_urls", [])):
\* a missing file gives {}; so does every exception inside the try of line
\* 256, which json.load raises on text that is not JSON, checkpoint.get on
\* JSON that is not an object, and len() on a processed_urls without a length.
load_checkpoint(file) ==
    IF file.kind = "complete" THEN file.processed_urls ELSE {}

\* line 95: set() raises TypeError on a list with an unhashable element,
\* outside every try
load_raises(file) == file.kind = "unhashable"

\* ------------------------------------------------------------ output tree
LegacyMarkdownName == "article.md"
MarkdownName(article_id) == "article_" \o article_id \o ".md"
MetadataName == "metadata.json"

\* the file the disk probe looks for inside an article folder
ProbedName == "article.md"

\* _is_already_extracted: some user folder holds article_<id>/article.md
is_already_extracted(d, article_id) == ProbedName \in d[article_id]

\* _save_results: metadata.json always, the markdown file when the record is
\* marked successful and has main content
save_results(d, article_id, result) ==
    [ d EXCEPT ![article_id] =
        @ \cup { MetadataName }
          \cup ( IF result.success /\ result.word_count > 0
                 THEN { MarkdownName(article_id) } ELSE {} ) ]

\* ------------------------------------------------------- validation gate
\* How a call of _validate_extraction ends: it returns, or raises an
\* exception of some kind whose str() is the message (the parts of the
\* f-string, in order).
Passed == [ kind |-> "ok", message |-> <<>> ]
Raised(kind, message) == [ kind |-> kind, message |-> message ]
NotValidated == [ kind |-> "none", message |-> <<>> ]

\* line 231-232: "login" in main_content and "password" in main_content,
\* main_content being the lowercased body
has_login_text(main_content) ==
    LET text == { lower(w) : w \in main_content }
    IN  "login" \in text /\ "password" \in text

\* _validate_extraction under config.validation = v
validate_extraction(v, result) ==
    IF ~result.success
    THEN Raised("ValidationError", << "Extraction marked as unsuccessful" >>)
    ELSE IF result.word_count < v.min_word_count
    THEN Raised("ValidationError",
                << "Word count", result.word_count, "below minimum", v.min_word_count >>)
    ELSE IF result.code_blocks < v.min_code_blocks
    THEN Raised("ValidationError",
                << "Code blocks", result.code_blocks, "below minimum", v.min_code_blocks >>)
    ELSE IF v.reject_login_popup /\ ~result.has_content
    THEN Raised("AttributeError", << "'NoneType' object has no attribute 'lower'" >>)
    ELSE IF /\ v.reject_login_popup
            /\ has_login_text(result.main_content)
            /\ result.word_count < login_popup_word_limit
    THEN Raised("ValidationError", << "Content appears to be login popup" >>)
    ELSE Passed

\* the messages of the ValidationErrors the records of the port can cause
ValidationReasons ==
    { o.message : o \in { x \in { validate_extraction(validation, r) : r \in Records } :
                              x.kind = "ValidationError" } }

\* str() of what _extract_with_playwright raises
PortError == << "navigation, timeout, parsing or download error" >>

\* line 114: the message of the ExtractionError, made of the article id and
\* the message of the last exception
ExtractionFailure(article_id, cause) == << "Failed to extract article", article_id, cause >>

\* ------------------------------------- tests/test_attachment_simple.py
\* The name of an archive member is a sequence of characters: '/', '.', a
\* letter, or the letters of an extension, kept together as one character.
Slash == "/"
Dot == "."
Letter == "a"
NameChars == { Slash, Dot, Letter, "mq5", "EX5", "zip" }

\* lines 19-25
FILE_CATEGORIES ==
    [ source |-> { << Dot, "mq5" >>, << Dot, "mq4" >> },
      headers |-> { << Dot, "mqh" >> },
      notebooks |-> { << Dot, "ipynb" >> },
      data |-> { << Dot, "csv" >>, << Dot, "json" >>, << Dot, "txt" >> },
      docs |-> { << Dot, "pdf" >>, << Dot, "md" >> } ]

\* line 28
SKIP_EXTENSIONS ==
    { << Dot, "ex5" >>, << Dot, "ex4" >>, << Dot, "bin" >>, << Dot, "dat" >>,
      << Dot, "dll" >>, << Dot, "exe" >> }

\* line 33
MAX_ZIP_DEPTH == 2

\* line 34
MAX_FILES_PER_ARCHIVE == 1000

\* str.rfind, 0 when the character does not occur
rfind(name, c) ==
    IF \E i \in DOMAIN name : name[i] = c
    THEN CHOOSE i \in DOMAIN name : name[i] = c /\ \A j \in DOMAIN name : name[j] = c => j <= i
    ELSE 0

\* str.lower() of a name
lowered(name) == [ i \in DOMAIN name |-> lower(name[i]) ]

\* os.path.basename
basename(name) == SubSeq(name, rfind(name, Slash) + 1, Len(name))

\* os.path.splitext(name)[1]: from the last dot of the last component on,
\* unless only dots precede it there
splitext_ext(name) ==
    LET sep == rfind(name, Slash)
        dot == rfind(name, Dot)
    IN  IF dot > sep /\ \E i \in (sep + 1) .. (dot - 1) : name[i] # Dot
        THEN SubSeq(name, dot, Len(name))
        ELSE << >>

\* pathlib's suffix of the last component
suffix(name) ==
    LET last == basename(name)
        dot == rfind(last, Dot)
    IN  IF 0 < dot - 1 /\ dot < Len(last) THEN SubSeq(last, dot, Len(last)) ELSE << >>

DownloadExtensions == UNION { FILE_CATEGORIES[c] : c \in DOMAIN FILE_CATEGORIES }

\* faulty variant: unknown types are downloaded by default
should_download_unknown(filename) ==
    lowered(splitext_ext(filename)) \notin SKIP_EXTENSIONS

\* lines 37-51
should_download_file(filename) ==
    LET ext == lowered(splitext_ext(filename))
    IN  IF ext \in SKIP_EXTENSIONS THEN FALSE
        ELSE ext \in DownloadExtensions

\* lines 54-60
get_file_category(filename) ==
    LET ext == lowered(splitext_ext(filename))
    IN  IF \E c \in DOMAIN FILE_CATEGORIES : ext \in FILE_CATEGORIES[c]
        THEN CHOOSE c \in DOMAIN FILE_CATEGORIES : ext \in FILE_CATEGORIES[c]
        ELSE "other"

\* a file below the attachments directory
File(category, filename) == [ category |-> category, filename |-> filename ]

\* what a ZIP file found inside an archive holds
NestedArchive == << << Letter, Dot, "EX5" >>, << Letter, Dot, "mq5" >>, << Letter, Dot, "zip" >> >>

\* lines 111-139: the loop over the members; gives the files the directory
\* holds afterwards
RECURSIVE extract_members(_, _, _)
extract_members(members, depth, dir) ==
    IF depth > MAX_ZIP_DEPTH \/ Len(members) > MAX_FILES_PER_ARCHIVE \/ members = << >>
    THEN dir
    ELSE LET member == Head(members)
             rest == Tail(members)
         IN  IF member[Len(member)] = Slash \/ ~should_download_file(member)
             THEN extract_members(rest, depth, dir)
             ELSE LET target == File(get_file_category(member), basename(member))
                      after == dir \cup { target }
                  IN  IF lowered(suffix(target.filename)) = << Dot, "zip" >>
                      THEN extract_members(rest, depth,
                               extract_members(NestedArchive, depth + 1, after))
                      ELSE extract_members(rest, depth, after)

\* lines 98-149; the exception of a damaged member ends the loop at that
\* member, whose target file may have been created by then
extract_zip_safely(members, fails_at, target_opened, dir) ==
    IF fails_at = 0 THEN extract_members(members, 0, dir)
    ELSE LET before == extract_members(SubSeq(members, 1, fails_at - 1), 0, dir)
             member == members[fails_at]
         IN  IF /\ Len(members) <= MAX_FILES_PER_ARCHIVE
                /\ member[Len(member)] # Slash
                /\ should_download_file(member)
                /\ target_opened
             THEN before \cup { File(get_file_category(member), basename(member)) }
             ELSE before

\* lines 177-216: the entries of the manifest for the files of the category
\* directories
generate_manifest(dir) ==
    { [ filename |-> f.filename,
        file_type |-> IF suffix(f.filename) = << >> THEN << "unknown" >>
                      ELSE Tail(suffix(f.filename)),
        category |-> f.category ] : f \in { g \in dir : g.category # "archives" } }

\* the attachment extraction before its first step
NewAttachments ==
    [ pc |-> "off", archive |-> << >>, archives |-> {}, written |-> {}, files |-> {} ]

\* no attachment extraction in this history
NoAttachments == [ pc |-> "off" ]

\* lines 306-311, step 2: the downloaded archive is extracted
ExtractZip(fails_at, target_opened) ==
    /\ attachments.pc = "extract"
    /\ fails_at \in 0 .. Len(attachments.archive)
    /\ attachments' =
         [ attachments EXCEPT
             !.pc = "deduplicate",
             !.written = extract_zip_safely(attachments.archive, fails_at,
                                            target_opened, attachments.written) ]
    /\ UNCHANGED << engine, cli >>

\* lines 151-174, step 3: files with the content of a file seen before are
\* removed; whether two files have the same content is not in the names
DeduplicateFiles(duplicates) ==
    /\ attachments.pc = "deduplicate"
    /\ duplicates \subseteq attachments.written
    /\ duplicates = attachments.written => duplicates = {}
    /\ attachments' = [ attachments EXCEPT !.pc = "manifest",
                                           !.written = @ \ duplicates ]
    /\ UNCHANGED << engine, cli >>

\* lines 323-327, step 4
GenerateManifest ==
    /\ attachments.pc = "manifest"
    /\ attachments' = [ attachments EXCEPT !.pc = "done",
                                           !.files = generate_manifest(attachments.written
                                                                       \cup attachments.archives) ]
    /\ UNCHANGED << engine, cli >>

\* every member name of at most MaxNameLen characters
AllNames == SeqsOf(NameChars, MaxNameLen) \ { << >> }

\* member names of the kinds an article's archive holds
SomeNames ==
    { << Letter, Dot, "mq5" >>, << Letter, Slash, Letter, Dot, "EX5" >>,
      << Letter, Slash >>, << Letter, Dot, "zip" >> }

\* the archives: one member of any name, or at most MaxLen usual members
Archives == { << n >> : n \in AllNames } \cup SeqsOf(SomeNames, MaxLen)

\* lines 292-301, step 1: the archive of the article was downloaded
DownloadedArchive == File("archives", << Letter, Dot, "zip" >>)

\* ------------------------------------------------------------------- Init
\* mql5_extract.py has not been started
NoCall == [ made |-> FALSE, urls |-> << >>, resume |-> FALSE ]
NoArgs ==
    [ command |-> "none", dry_run |-> FALSE, resume |-> FALSE, no_checkpoint |-> FALSE,
      max_articles |-> 0, config_file |-> "absent",
      urls_file |-> [ exists |-> FALSE, lines |-> << >> ] ]

\* a process of mql5_extract.py before main runs
NewCli ==
    [ pc |-> "off", args |-> NoArgs, exit_code |-> -1, effects |-> {},
      urls |-> << >>, call |-> NoCall ]

\* no such process in this history
NoCli == [ pc |-> "off" ]

\* the result dict before the page is read (lines 118-132)
NoRecord ==
    [ success |-> FALSE, word_count |-> 0, code_blocks |-> 0,
      has_content |-> FALSE, main_content |-> {},
      user_id |-> "unknown", images |-> << >> ]

\* lines 63-68: content_stats of a new BatchProcessor; users is a set until
\* line 161 puts a list in its place
ZeroContent ==
    [ total_words |-> 0, total_images |-> 0, total_code_blocks |-> 0, users |-> {},
      users_is_list |-> FALSE ]

\* nothing has run yet
NoPrior == [ kind |-> "none", stopped_at |-> 0, succeeded |-> {} ]

\* no process has been started
InitState ==
    /\ pc = "idle"
    /\ urls = <<>>
    /\ resume = FALSE
    /\ continue_on_error = TRUE
    /\ idx = 0
    /\ processed_urls = {}
    /\ stats = ZeroStats
    /\ failed_articles = <<>>
    /\ attempt = 0
    /\ sleeping = 0
    /\ run_no = 0
    /\ ckpt_at_start = {}
    /\ called = {}
    /\ first_call = NoUrl
    /\ calls_item = 0
    /\ port_result = "none"
    /\ last_outcome = "none"
    /\ early_abort = FALSE
    /\ ever_failed = {}
    /\ outcomes = << >>
    /\ written = {}
    /\ rate_waits = -1
    /\ prior = NoPrior
    /\ content_stats = ZeroContent
    /\ users_report = << >>
    /\ accepted = << >>
    /\ reports = {}
    /\ outstanding = 0

\* the files after the URLs of S were extracted and checkpointed: nothing
\* when S is empty
OutputAfter(S) ==
    /\ disk = [ a \in ArticleIds |->
                  IF \E u \in S : extract_id_from_url(u) = a
                  THEN { MetadataName, MarkdownName(a) } ELSE {} ]
    /\ extracted = [ u \in AllUrls |-> IF u \in S THEN 1 ELSE 0 ]
    /\ last_complete = S

FilesAfter(S) ==
    /\ checkpoint_file = IF S = {} THEN AbsentFile ELSE CompleteFile(S)
    /\ OutputAfter(S)

\* no direct call of _validate_extraction is made
InitNoGate ==
    /\ val_record = NoRecord
    /\ val_outcome = NotValidated

\* the defaults of RetryConfig (but max_attempts) and of ValidationConfig
InitDefaults ==
    /\ retry = RetryDefaults
    /\ validation = ValidationDefaults

\* the default configuration, no checkpoint file yet
Init ==
    /\ InitState
    /\ cli = NoCli
    /\ attachments = NoAttachments
    /\ InitNoGate
    /\ InitDefaults
    /\ FilesAfter({})
    /\ max_attempts = default_max_attempts
    /\ run_limit = MaxRuns

\* one run under each retry policy with max_attempts >= 1
InitAttempts ==
    /\ InitState
    /\ cli = NoCli
    /\ attachments = NoAttachments
    /\ InitNoGate
    /\ InitDefaults
    /\ FilesAfter({})
    /\ max_attempts \in 1 .. MaxAttempts
    /\ run_limit = 1

\* the URL the legacy extractor was run on before the engine
LegacyUrl == <<"en", "101">>

\* the lists of at most MaxLen URLs, the other language included
AliasLists == SeqsOf(AllUrls, MaxLen)

\* one run, after the legacy extractor has saved the article of LegacyUrl
\* into the output tree
InitAlias ==
    /\ InitState
    /\ cli = NoCli
    /\ attachments = NoAttachments
    /\ InitNoGate
    /\ InitDefaults
    /\ checkpoint_file = AbsentFile
    /\ last_complete = {}
    /\ extracted = [ u \in AllUrls |-> 0 ]
    /\ disk = [ a \in ArticleIds |->
                  IF a = extract_id_from_url(LegacyUrl)
                  THEN { MetadataName, LegacyMarkdownName } ELSE {} ]
    /\ max_attempts = 2
    /\ run_limit = 1

\* one run under a max_attempts around zero
InitFewAttempts ==
    /\ InitState
    /\ cli = NoCli
    /\ attachments = NoAttachments
    /\ InitNoGate
    /\ InitDefaults
    /\ FilesAfter({})
    /\ max_attempts \in -1 .. 2
    /\ run_limit = 1

\* one run (and what a specification lets follow it), two attempts per
\* item, after nothing or after one URL was extracted and checkpointed
InitOneRun ==
    /\ InitState
    /\ cli = NoCli
    /\ attachments = NoAttachments
    /\ InitNoGate
    /\ InitDefaults
    /\ \E S \in { {} } \cup { { u } : u \in URLS } : FilesAfter(S)
    /\ max_attempts = 2
    /\ run_limit = 1

\* one run over whatever the checkpoint path holds
InitLeftover ==
    /\ InitState
    /\ cli = NoCli
    /\ attachments = NoAttachments
    /\ InitNoGate
    /\ InitDefaults
    /\ checkpoint_file \in LeftoverFiles
    /\ OutputAfter({})
    /\ max_attempts = default_max_attempts
    /\ run_limit = 1

\* retry policies with integer seconds
RetryPolicies ==
    { RetryDefaults,
      [ initial_backoff_seconds |-> 1, max_backoff_seconds |-> 10, exponential_base |-> 3 ],
      [ initial_backoff_seconds |-> 7, max_backoff_seconds |-> 7, exponential_base |-> 1 ] }

\* one run with many attempts per item
InitBackoff ==
    /\ InitState
    /\ cli = NoCli
    /\ attachments = NoAttachments
    /\ InitNoGate
    /\ validation = ValidationDefaults
    /\ retry \in RetryPolicies
    /\ FilesAfter({})
    /\ max_attempts = MaxBackoffAttempts
    /\ run_limit = 1

\* one run, two attempts per item, on an empty output tree
InitTotals ==
    /\ InitState
    /\ cli = NoCli
    /\ attachments = NoAttachments
    /\ InitNoGate
    /\ InitDefaults
    /\ FilesAfter({})
    /\ max_attempts = 2
    /\ run_limit = 1

\* the same for two runs, one after the other
InitReports ==
    /\ InitState
    /\ cli = NoCli
    /\ attachments = NoAttachments
    /\ InitNoGate
    /\ InitDefaults
    /\ FilesAfter({})
    /\ max_attempts = 2
    /\ run_limit = 2

\* ----------------------------------------------------- process_urls: start
\* faulty variant: the checkpoint is never loaded
initial_processed_never_loads(r, file) == {}

\* line 94-95: the set the run starts from
initial_processed(r, file) == IF r THEN load_checkpoint(file) ELSE {}

\* faulty variant: total counts the distinct URLs of the list
run_total_distinct(us) == Cardinality({ us[j] : j \in 1 .. Len(us) })

\* line 85: total is the length of the input list
run_total(us) == Len(us)

\* A process is started: BatchProcessor.__init__ gives fresh counters,
\* process_urls sets total and loads the checkpoint (lines 49-64, 82-95);
\* the TypeError of line 95 ends process_urls before the loop.
Start(us, r, coe, repeats) ==
    /\ pc \in IdlePcs
    /\ run_no' = run_no + 1
    /\ urls' = us
    /\ resume' = r
    /\ continue_on_error' = coe
    /\ stats' = [ ZeroStats EXCEPT !.total = run_total(us) ]
    /\ failed_articles' = <<>>
    /\ IF r /\ load_raises(checkpoint_file)
       THEN /\ pc' = "crashed"
            /\ processed_urls' = {}
            /\ idx' = 0
       ELSE /\ pc' = "loop"
            /\ processed_urls' = initial_processed(r, checkpoint_file)
            /\ idx' = 1
    /\ attempt' = 0
    /\ sleeping' = 0
    /\ ckpt_at_start' = load_checkpoint(checkpoint_file)
    /\ called' = {}
    /\ first_call' = NoUrl
    /\ calls_item' = 0
    /\ port_result' = "none"
    /\ last_outcome' = "none"
    /\ early_abort' = FALSE
    /\ outcomes' = << >>
    /\ written' = {}
    /\ rate_waits' = -1
    /\ prior' = repeats
    /\ content_stats' = ZeroContent
    /\ users_report' = << >>
    /\ accepted' = << >>
    /\ outstanding' = 0
    /\ UNCHANGED << durable, extracted, ever_failed, last_complete, reports >>
    /\ UNCHANGED << cli, attachments, config, gate >>

\* process_urls is called again on the BatchProcessor whose call has
\* returned: line 85 sets total, every other entry of self.stats stays as the
\* call before left it (lines 82-95)
CallAgain(us, r, coe) ==
    /\ pc = "returned"
    /\ run_no < MaxRuns
    /\ run_no' = run_no + 1
    /\ urls' = us
    /\ resume' = r
    /\ continue_on_error' = coe
    /\ stats' = [ stats EXCEPT !.total = run_total(us) ]
    /\ IF r /\ load_raises(checkpoint_file)
       THEN /\ pc' = "crashed"
            /\ processed_urls' = {}
            /\ idx' = 0
       ELSE /\ pc' = "loop"
            /\ processed_urls' = initial_processed(r, checkpoint_file)
            /\ idx' = 1
    /\ attempt' = 0
    /\ sleeping' = 0
    /\ ckpt_at_start' = load_checkpoint(checkpoint_file)
    /\ called' = {}
    /\ first_call' = NoUrl
    /\ calls_item' = 0
    /\ port_result' = "none"
    /\ last_outcome' = "none"
    /\ early_abort' = FALSE
    /\ outcomes' = << >>
    /\ written' = {}
    /\ rate_waits' = -1
    /\ prior' = NoPrior
    /\ UNCHANGED << durable, extracted, ever_failed, last_complete, failed_articles,
                    totals, outstanding >>
    /\ UNCHANGED << cli, attachments, config, gate >>

\* the command is run on some list of URLs
StartRun(us, r, coe) ==
    /\ run_no < run_limit
    /\ Start(us, r, coe, NoPrior)

\* how the run that has just returned ended, when the checkpoint file is
\* still as that run left it
prior_of_rerun ==
    IF load_checkpoint(checkpoint_file) =
           (IF written # {} THEN processed_urls ELSE ckpt_at_start)
    THEN [ kind |-> IF early_abort THEN "aborted"
                    ELSE IF stats.failed > 0 THEN "failed" ELSE "complete",
           stopped_at |-> IF early_abort THEN idx ELSE 0,
           succeeded |-> IF early_abort
                         THEN { urls[j] : j \in { k \in 1 .. Len(outcomes) :
                                                     outcomes[k] = "success" } }
                         ELSE {} ]
    ELSE NoPrior

\* the command is run again with resume=true on the list of the run that
\* has just returned
Rerun(coe) ==
    /\ pc = "returned"
    /\ run_no < MaxRuns
    /\ Start(urls, TRUE, coe, prior_of_rerun)

\* ------------------------------------------------------ stats aggregator
Bump(s, counter) == [ s EXCEPT ![counter] = @ + 1 ]

Counted(s) == s.successful + s.failed + s.skipped

\* --------------------------------------------------- process_urls: the loop
InLoop == pc = "loop" /\ idx <= Len(urls)

\* faulty variant: the test of line 101 is missing
already_processed_never(url, processed) == FALSE

\* line 101: the membership test on the in-memory set
already_processed(url, processed) == url \in processed

\* next iteration of the for loop
Advance ==
    /\ idx' = idx + 1
    /\ pc' = "loop"
    /\ attempt' = 0
    /\ sleeping' = 0
    /\ calls_item' = 0
    /\ port_result' = "none"
    /\ last_outcome' = "none"

\* lines 101-105: the URL is in processed_urls
SkipProcessed ==
    /\ InLoop
    /\ already_processed(CurUrl, processed_urls)
    /\ stats' = Bump(stats, "skipped")
    /\ outcomes' = Append(outcomes, "in_checkpoint")
    /\ Advance
    /\ UNCHANGED << durable, urls, resume, continue_on_error, processed_urls,
                    failed_articles, run_no, ckpt_at_start, called, first_call,
                    early_abort, extracted, ever_failed, last_complete,
                    written, rate_waits, prior >>
    /\ UNCHANGED << cli, attachments, config, gate, totals, outstanding >>

\* lines 108-114: the disk probe finds the article; the checkpoint is saved next
SkipExtracted ==
    /\ InLoop
    /\ ~already_processed(CurUrl, processed_urls)
    /\ is_already_extracted(disk, extract_id_from_url(CurUrl))
    /\ processed_urls' = processed_urls \cup { CurUrl }
    /\ stats' = Bump(stats, "skipped")
    /\ outcomes' = Append(outcomes, "on_disk")
    /\ pc' = "save_skip"
    /\ UNCHANGED << durable, urls, resume, continue_on_error, idx, failed_articles,
                    attempt, sleeping, run_no, ckpt_at_start, called, first_call,
                    calls_item, port_result, last_outcome, early_abort, extracted,
                    ever_failed, last_complete, written, rate_waits, prior >>
    /\ UNCHANGED << cli, attachments, config, gate, totals, outstanding >>

\* faulty variant: the invocation is started and not awaited
pc_after_invoke_not_awaited == "loop"

\* line 86, "result = await self._extract_with_playwright(...)": the
\* coroutine is suspended until the invocation returns or raises
pc_after_invoke == "port"

\* an Extraction Port invocation starts (line 86)
InvokePort ==
    /\ pc' = pc_after_invoke
    /\ outstanding' = outstanding + 1
    /\ sleeping' = 0
    /\ calls_item' = calls_item + 1
    /\ port_result' = "pending"
    /\ called' = called \cup { CurUrl }
    /\ first_call' = IF first_call = NoUrl THEN CurUrl ELSE first_call

\* line 81: range(1, max_attempts + 1) has no element
no_attempt_allowed(n) == n < 1

\* lines 117-121 and 79-86: extract_article is called, attempt 1 starts; with
\* no attempt to make, the for loop of line 81 ends at once, extract_article
\* returns None, and _update_stats(None) (line 124) ends process_urls with an
\* AttributeError
BeginExtract ==
    /\ InLoop
    /\ ~already_processed(CurUrl, processed_urls)
    /\ ~is_already_extracted(disk, extract_id_from_url(CurUrl))
    /\ IF no_attempt_allowed(max_attempts)
       THEN /\ pc' = "crashed"
            /\ last_outcome' = "no_record"
            /\ UNCHANGED << attempt, sleeping, calls_item, port_result, called,
                            first_call, outstanding >>
       ELSE /\ attempt' = 1
            /\ InvokePort
            /\ UNCHANGED last_outcome
    /\ UNCHANGED << durable, urls, resume, continue_on_error, idx, processed_urls,
                    stats, failed_articles, run_no, ckpt_at_start,
                    early_abort, extracted, ever_failed, last_complete,
                    outcomes, written, rate_waits, prior >>
    /\ UNCHANGED << cli, attachments, config, gate, totals >>

\* ------------------------------------------------------- extract_article
\* faulty variant: the test of line 102 is off by one
has_attempts_left_off_by_one(a) == a <= max_attempts

\* line 102: another attempt follows this failed one
has_attempts_left(a) == a < max_attempts

\* faulty variant: the except clause of line 94 is missing, every exception is retried
is_retried_always(kind) == TRUE

\* lines 94-98: a ValidationError is re-raised, any other exception is retried
is_retried(kind) == kind # "ValidationError"

\* faulty variant: the break of line 145 is never taken
stops_on_error_never(coe) == FALSE

\* line 143: the loop is left after a failed item
stops_on_error(coe) == ~coe

\* faulty variant: processed_urls.add(url) is missing
processed_after_never_adds(outcome, processed, url) == processed

\* faulty variant: processed_urls is set to the URL instead of growing by it
processed_after_replaces(outcome, processed, url) ==
    IF outcome = "success" THEN { url } ELSE processed

\* faulty variant: processed_urls.add(url) runs for failed items too
processed_after_always_adds(outcome, processed, url) == processed \cup { url }

\* lines 125 and 131-140: what the outcome of an item does to processed_urls
processed_after(outcome, processed, url) ==
    IF outcome = "success" THEN processed \cup { url } ELSE processed

Min(a, b) == IF a <= b THEN a ELSE b

\* faulty variant: the exponent is the attempt number
backoff_exponent_off_by_one(r, a) ==
    Min(r.initial_backoff_seconds * (r.exponential_base ^ a), r.max_backoff_seconds)

\* lines 103-108: the sleep after failed attempt a under retry policy r
backoff(r, a) ==
    Min(r.initial_backoff_seconds * (r.exponential_base ^ (a - 1)), r.max_backoff_seconds)

\* faulty variant: the newest failure is put first
record_failure_newest_first(failures, url, error) ==
    << [ article_id |-> extract_id_from_url(url), url |-> url, error |-> error ] >>
        \o failures

\* lines 136-140: the entry of the failed item is appended to failed_articles
record_failure(failures, url, error) ==
    Append(failures,
           [ article_id |-> extract_id_from_url(url), url |-> url, error |-> error ])

\* lines 131-145: process_urls catches the error of extract_article
ItemFailed(outcome, error) ==
    /\ stats' = Bump(stats, "failed")
    /\ failed_articles' = record_failure(failed_articles, CurUrl, error)
    /\ processed_urls' = processed_after(outcome, processed_urls, CurUrl)
    /\ ever_failed' = ever_failed \cup { CurUrl }
    /\ last_outcome' = outcome
    /\ outcomes' = Append(outcomes, outcome)
    /\ rate_waits' = 0
    /\ attempt' = 0
    /\ sleeping' = 0
    /\ early_abort' = stops_on_error(continue_on_error)
    /\ pc' = IF stops_on_error(continue_on_error) THEN "finalize" ELSE "save_item"

\* lines 94-114: an attempt ended in an exception of the given kind and message
AttemptFailed(kind, message) ==
    IF ~is_retried(kind)
    THEN ItemFailed("ValidationError", message)
    ELSE IF has_attempts_left(attempt)
    THEN /\ pc' = "backoff"
         /\ sleeping' = backoff(retry, attempt)
         /\ UNCHANGED << stats, failed_articles, processed_urls, last_outcome,
                         attempt, early_abort, ever_failed, outcomes, rate_waits >>
    ELSE ItemFailed("ExtractionError",
                    ExtractionFailure(extract_id_from_url(CurUrl), message))

\* _extract_with_playwright raises (navigation, timeout, parsing, download)
PortRaises ==
    /\ pc = "port"
    /\ outstanding' = outstanding - 1
    /\ port_result' = "raised"
    /\ AttemptFailed("Exception", PortError)
    /\ UNCHANGED << durable, urls, resume, continue_on_error, idx, run_no,
                    ckpt_at_start, called, first_call, calls_item, extracted,
                    last_complete, written, prior >>
    /\ UNCHANGED << cli, attachments, config, gate, totals >>

\* line 218: the images of the record that have a local_path
local_images(images) ==
    Cardinality({ i \in DOMAIN images : images[i].local_path # NoPath })

\* faulty variant: every image of the record is counted
update_stats_counts_every_image(cs, result) ==
    [ total_words |-> cs.total_words + result.word_count,
      total_code_blocks |-> cs.total_code_blocks + result.code_blocks,
      total_images |-> cs.total_images + Len(result.images),
      users |-> IF result.user_id # "unknown"
                THEN cs.users \cup { result.user_id } ELSE cs.users,
      users_is_list |-> cs.users_is_list ]

\* faulty variant: the sentinel is taken for a user
update_stats_keeps_unknown(cs, result) ==
    [ total_words |-> cs.total_words + result.word_count,
      total_code_blocks |-> cs.total_code_blocks + result.code_blocks,
      total_images |-> cs.total_images + local_images(result.images),
      users |-> cs.users \cup { result.user_id },
      users_is_list |-> cs.users_is_list ]

\* _update_stats (lines 202-221) on content_stats cs; the user_id of a record
\* is never empty
update_stats(cs, result) ==
    [ total_words |-> cs.total_words + result.word_count,
      total_code_blocks |-> cs.total_code_blocks + result.code_blocks,
      total_images |-> cs.total_images + local_images(result.images),
      users |-> IF result.user_id # "unknown"
                THEN cs.users \cup { result.user_id } ELSE cs.users,
      users_is_list |-> cs.users_is_list ]

\* line 221: users.add(user_id) on the list that line 161 left in the place
\* of the set raises AttributeError
add_user_raises(cs, result) == cs.users_is_list /\ result.user_id # "unknown"

\* what _update_stats reads of a record
Counted_of(result) ==
    [ word_count |-> result.word_count, code_blocks |-> result.code_blocks,
      images |-> result.images, user_id |-> result.user_id ]

\* _extract_with_playwright returns a record: _save_results has written it
\* (line 191), then _validate_extraction decides (line 89); an exception of
\* _update_stats (line 124) is not caught and ends process_urls
PortReturns(result) ==
    LET outcome == validate_extraction(validation, result)
    IN  /\ pc = "port"
        /\ outstanding' = outstanding - 1
        /\ disk' = save_results(disk, extract_id_from_url(CurUrl), result)
        /\ port_result' = CASE outcome.kind = "ok" -> "accepted"
                            [] outcome.kind = "ValidationError" -> "rejected"
                            [] OTHER -> "raised"
        /\ IF outcome.kind = "ok" /\ add_user_raises(content_stats, result)
           THEN /\ pc' = "crashed"
                /\ content_stats' =
                       [ update_stats(content_stats, result) EXCEPT !.users = content_stats.users ]
                /\ extracted' = [ extracted EXCEPT ![CurUrl] = @ + 1 ]
                /\ last_outcome' = "success"
                /\ attempt' = 0
                /\ sleeping' = 0
                /\ UNCHANGED << stats, processed_urls, failed_articles, early_abort,
                                ever_failed, outcomes, rate_waits, accepted >>
           ELSE IF outcome.kind = "ok"
           THEN /\ stats' = Bump(stats, "successful")
                /\ processed_urls' = processed_after("success", processed_urls, CurUrl)
                /\ extracted' = [ extracted EXCEPT ![CurUrl] = @ + 1 ]
                /\ last_outcome' = "success"
                /\ outcomes' = Append(outcomes, "success")
                /\ rate_waits' = 0
                /\ attempt' = 0
                /\ sleeping' = 0
                /\ pc' = "save_item"
                /\ content_stats' = update_stats(content_stats, result)
                /\ accepted' = Append(accepted, Counted_of(result))
                /\ UNCHANGED << failed_articles, early_abort, ever_failed >>
           ELSE /\ AttemptFailed(outcome.kind, outcome.message)
                /\ UNCHANGED << extracted, content_stats, accepted >>
        /\ UNCHANGED << checkpoint_file, urls, resume, continue_on_error, idx, run_no,
                        ckpt_at_start, called, first_call, calls_item, last_complete,
                        written, prior >>
        /\ UNCHANGED << cli, attachments, config, gate, users_report, reports >>

\* line 110 and the next turn of the for loop of line 81; a loop that runs
\* out of attempts without raising makes extract_article return None, and
\* _update_stats(None) then ends process_urls with an AttributeError
BackoffDone ==
    /\ pc = "backoff"
    /\ IF attempt + 1 <= max_attempts
       THEN /\ attempt' = attempt + 1
            /\ InvokePort
       ELSE /\ pc' = "crashed"
            /\ attempt' = 0
            /\ sleeping' = 0
            /\ UNCHANGED << called, first_call, calls_item, port_result, outstanding >>
    /\ UNCHANGED << durable, urls, resume, continue_on_error, idx, processed_urls,
                    stats, failed_articles, run_no, ckpt_at_start, last_outcome,
                    early_abort, extracted, ever_failed, last_complete,
                    outcomes, written, rate_waits, prior >>
    /\ UNCHANGED << cli, attachments, config, gate, totals >>

\* ------------------------------------------------------ _save_checkpoint
\* line 240: open(self.checkpoint_file, 'w') truncates the file in place
SaveOpen ==
    /\ pc \in { "save_skip", "save_item" }
    /\ checkpoint_file' = TruncatedFile
    /\ pc' = IF pc = "save_skip" THEN "dump_skip" ELSE "dump_item"
    /\ UNCHANGED << disk, memory, run_no, ckpt_at_start, called, first_call,
                    calls_item, port_result, last_outcome, early_abort, extracted,
                    ever_failed, last_complete, outcomes, written, rate_waits, prior >>
    /\ UNCHANGED << cli, attachments, config, gate, totals, outstanding >>

\* faulty variant: no sleep after the last but one article either
rate_limited_off_by_one(i, n) == i < n - 1

\* line 151: the rate limit sleep follows every article but the last
rate_limited(i, n) == i < n

\* lines 241-243: json.dump and the close of the file; then "continue"
\* (line 114) or the rate limit test of line 151
SaveDump ==
    /\ pc \in { "dump_skip", "dump_item" }
    /\ checkpoint_file' = CompleteFile(processed_urls)
    /\ last_complete' = processed_urls
    /\ written' = written \cup { idx }
    /\ IF pc = "dump_item" /\ rate_limited(idx, Len(urls))
       THEN /\ pc' = "rate"
            /\ sleeping' = rate_limit_seconds
            /\ UNCHANGED << idx, attempt, calls_item, port_result, last_outcome >>
       ELSE Advance
    /\ UNCHANGED << disk, urls, resume, continue_on_error, processed_urls, stats,
                    failed_articles, run_no, ckpt_at_start, called, first_call,
                    early_abort, extracted, ever_failed, outcomes, rate_waits, prior >>
    /\ UNCHANGED << cli, attachments, config, gate, totals, outstanding >>

\* line 152: the rate limit sleep is over
RateLimitDone ==
    /\ pc = "rate"
    /\ rate_waits' = rate_waits + 1
    /\ Advance
    /\ UNCHANGED << durable, urls, resume, continue_on_error, processed_urls, stats,
                    failed_articles, run_no, ckpt_at_start, called, first_call,
                    early_abort, extracted, ever_failed, last_complete,
                    outcomes, written, prior >>
    /\ UNCHANGED << cli, attachments, config, gate, totals, outstanding >>

\* the for loop of line 97 has no item left
LoopExhausted ==
    /\ pc = "loop"
    /\ idx > Len(urls)
    /\ pc' = "finalize"
    /\ UNCHANGED << durable, memory, run_no, ckpt_at_start, called, first_call,
                    calls_item, port_result, last_outcome, early_abort, extracted,
                    ever_failed, last_complete, outcomes, written, rate_waits, prior >>
    /\ UNCHANGED << cli, attachments, config, gate, totals, outstanding >>

\* list(s) of a set of strings: the elements in the order of the hash table,
\* which follows the hashes of the strings (salted per process) and, where
\* they collide, the order of insertion: any order
Orderings(S) ==
    { q \in [ 1 .. Cardinality(S) -> S ] : { q[i] : i \in 1 .. Cardinality(S) } = S }

\* lines 154-171: the statistics are finalized and returned; line 161 turns
\* the set of users into a list
Finalize ==
    /\ pc = "finalize"
    /\ pc' = "returned"
    /\ content_stats' = [ content_stats EXCEPT !.users_is_list = TRUE ]
    /\ \E order \in Orderings(content_stats.users) :
          /\ users_report' = order
          /\ reports' = IF order = << >> THEN reports ELSE reports \cup { order }
    /\ UNCHANGED << durable, memory, run_no, ckpt_at_start, called, first_call,
                    calls_item, port_result, last_outcome, early_abort, extracted,
                    ever_failed, last_complete, outcomes, written, rate_waits, prior >>
    /\ UNCHANGED << cli, attachments, config, gate, accepted, outstanding >>

\* ------------------------------------------------------------ environment
\* The process is killed: its memory is gone, the files stay as they are.
Kill ==
    /\ pc \notin IdlePcs
    /\ pc' = "killed"
    /\ urls' = <<>>
    /\ resume' = FALSE
    /\ continue_on_error' = TRUE
    /\ idx' = 0
    /\ processed_urls' = {}
    /\ stats' = ZeroStats
    /\ failed_articles' = <<>>
    /\ attempt' = 0
    /\ sleeping' = 0
    /\ called' = {}
    /\ first_call' = NoUrl
    /\ calls_item' = 0
    /\ port_result' = "none"
    /\ last_outcome' = "none"
    /\ early_abort' = FALSE
    /\ outcomes' = << >>
    /\ written' = {}
    /\ rate_waits' = -1
    /\ prior' = NoPrior
    /\ content_stats' = ZeroContent
    /\ users_report' = << >>
    /\ accepted' = << >>
    /\ outstanding' = 0
    /\ UNCHANGED << durable, run_no, ckpt_at_start, extracted, ever_failed,
                    last_complete, reports >>
    /\ UNCHANGED << cli, attachments, config, gate >>

\* clear_checkpoint (lines 271-275), called between runs
ClearCheckpoint ==
    /\ pc \in IdlePcs
    /\ checkpoint_file.kind # "absent"
    /\ checkpoint_file' = AbsentFile
    /\ last_complete' = {}
    /\ UNCHANGED << disk, pc, memory, run_no, ckpt_at_start, called, first_call,
                    calls_item, port_result, last_outcome, early_abort, extracted,
                    ever_failed, outcomes, written, rate_waits, prior >>
    /\ UNCHANGED << cli, attachments, config, gate, totals, outstanding >>

\* The output tree already holds an article saved by the legacy extractor,
\* which shares the default output directory and names its markdown article.md.
LegacyExtract(article_id) ==
    /\ pc = "idle"
    /\ LegacyMarkdownName \notin disk[article_id]
    /\ disk' = [ disk EXCEPT ![article_id] = @ \cup { MetadataName, LegacyMarkdownName } ]
    /\ UNCHANGED << checkpoint_file, pc, memory, run_no, ckpt_at_start, called,
                    first_call, calls_item, port_result, last_outcome, early_abort,
                    extracted, ever_failed, last_complete, outcomes, written,
                    rate_waits, prior >>
    /\ UNCHANGED << cli, attachments, config, gate, totals, outstanding >>

\* ------------------------------------------- the validation gate on its own
\* records _validate_extraction can be given
ValidationInputs ==
    { r \in [ success : BOOLEAN, word_count : { 0, 150, 199, 200, 499, 500 },
              code_blocks : { 0, 1, 2 }, has_content : BOOLEAN,
              main_content : SUBSET BodyWords ] :
        /\ ~r.has_content => (r.main_content = {} /\ r.word_count = 0)
        /\ r.main_content # {} => r.word_count > 0 }

ValidationConfigs ==
    [ min_word_count : { 0, 100, 500 }, min_code_blocks : { 0, 1 },
      reject_login_popup : BOOLEAN ]

\* no batch runs; one record is given to _validate_extraction
InitGate ==
    /\ InitState
    /\ cli = NoCli
    /\ attachments = NoAttachments
    /\ retry = RetryDefaults
    /\ FilesAfter({})
    /\ max_attempts = default_max_attempts
    /\ run_limit = 0
    /\ validation \in ValidationConfigs
    /\ val_record \in ValidationInputs
    /\ val_outcome = NotValidated

\* self._validate_extraction(result), line 89
Validate ==
    /\ val_outcome = NotValidated
    /\ val_outcome' = validate_extraction(validation, val_record)
    /\ UNCHANGED << durable, pc, memory, run_no, ckpt_at_start, called, first_call,
                    calls_item, port_result, last_outcome, early_abort, extracted,
                    ever_failed, last_complete, outcomes, written, rate_waits, prior >>
    /\ UNCHANGED << cli, attachments, config, val_record, totals, outstanding >>

\* ------------------------------------------------------- URLDiscovery.load_urls
\* A line of a URLs file is a sequence of characters: a blank, '#', a digit,
\* the arrow U+2192 (written "->" here) or any other character of a URL.
Space == " "
Hash == "#"
Digit == "7"
Arrow == "->"
UrlChar == "u"
Chars == { Space, Hash, Digit, Arrow, UrlChar }

\* str.strip(): leading and trailing whitespace removed
RECURSIVE lstrip(_)
lstrip(l) == IF l # << >> /\ Head(l) = Space THEN lstrip(Tail(l)) ELSE l

RECURSIVE rstrip(_)
rstrip(l) ==
    IF l # << >> /\ l[Len(l)] = Space THEN rstrip(SubSeq(l, 1, Len(l) - 1)) ELSE l

strip(l) == rstrip(lstrip(l))

\* line.split(arrow, 1)[1]: what follows the first arrow of l
RECURSIVE after_first_arrow(_)
after_first_arrow(l) == IF Head(l) = Arrow THEN Tail(l) ELSE after_first_arrow(Tail(l))

\* lines 268-270: the entry made of a stripped line
entry_of(l) ==
    IF \E i \in DOMAIN l : l[i] = Arrow THEN after_first_arrow(l) ELSE l

\* lines 262-271: the loop over the lines of the file
RECURSIVE load_urls(_)
load_urls(lines) ==
    IF lines = << >> THEN << >>
    ELSE LET l == strip(Head(lines))
         IN  IF l # << >> /\ Head(l) # Hash
             THEN << entry_of(l) >> \o load_urls(Tail(lines))
             ELSE load_urls(Tail(lines))

\* ------------------------------------------------------------ mql5_extract.py
\* What a run of the program has done outside its own memory.
LogFile == "log file"
OutputDir == "output directory"
OutputTree == "article output"
SummaryFile == "summary file"
CheckpointWrite == "checkpoint file"
PortCall == "Extraction Port invocation"
DiscoveryCall == "discovery invocation"
SavedUrls == "saved URLs file"

\* what process_urls can do, depending on the list and on what is complete
EngineEffects == { PortCall, OutputTree, CheckpointWrite }

\* the program ends with the given exit code
Exit(code) == [ cli EXCEPT !.pc = "exited", !.exit_code = code ]

\* faulty variant: a config file that cannot be loaded is ignored
config_loads_always(a) == TRUE

\* lines 163-168: ConfigManager(...).load() returns; a path that does not
\* exist is replaced by None and gives the defaults, a file that is not the
\* YAML of a configuration raises
config_loads(a) == a.config_file # "broken"

\* faulty variant: the log file is opened under --dry-run as well
logs_to_file_always(a) == TRUE

\* line 186: log_file=config.logging.file if not args.dry_run else None
logs_to_file(a) == ~a.dry_run

\* lines 155-192 of main: the command is checked, the configuration loaded,
\* the logger set up
CliStart ==
    /\ cli.pc = "start"
    /\ cli' = IF cli.args.command = "none" THEN Exit(1)
              ELSE IF ~config_loads(cli.args) THEN Exit(1)
              ELSE [ cli EXCEPT !.pc = cli.args.command,
                                !.effects = IF logs_to_file(cli.args)
                                            THEN { LogFile } ELSE {} ]
    /\ UNCHANGED << engine, attachments >>

\* handle_single (lines 214-239): extract_article is awaited; an exception
\* of it ends the program with exit code 1
HandleSingle(port_effects, failed) ==
    /\ cli.pc = "single"
    /\ cli' = IF cli.args.dry_run THEN Exit(0)
              ELSE [ Exit(IF failed THEN 1 ELSE 0) EXCEPT
                        !.effects = @ \cup { OutputDir, PortCall } \cup port_effects ]
    /\ UNCHANGED << engine, attachments >>

\* urls[:max_articles] when --max-articles is given and not 0
capped(us, n) == IF n # 0 /\ n < Len(us) THEN SubSeq(us, 1, n) ELSE us

\* handle_batch, lines 242-258: the URLs file is checked and loaded, the
\* list capped
HandleBatchLoad ==
    /\ cli.pc = "batch"
    /\ cli' = IF ~cli.args.urls_file.exists THEN Exit(1)
              ELSE [ cli EXCEPT !.pc = "batch loaded",
                                !.urls = capped(load_urls(cli.args.urls_file.lines),
                                                cli.args.max_articles) ]
    /\ UNCHANGED << engine, attachments >>

\* the parameters of BatchProcessor.__init__ (batch_processor.py line 37)
BatchProcessorParameters == { "config", "extractor" }

\* a call with the given arguments binds to the parameters
accepts(parameters, arguments) == arguments \subseteq parameters

\* handle_batch, lines 260-286: the dry-run report, or the extractor and the
\* batch engine are built and process_urls is awaited; main turns an
\* exception of any of it into the exit code 1 (lines 208-210)
HandleBatchRun(engine_effects) ==
    /\ cli.pc = "batch loaded"
    /\ cli' =
         IF cli.args.dry_run THEN Exit(0)
         ELSE IF ~accepts(BatchProcessorParameters, { "config", "extractor", "use_checkpoint" })
         THEN [ Exit(1) EXCEPT !.effects = @ \cup { OutputDir } ]
         ELSE [ Exit(0) EXCEPT
                   !.effects = @ \cup { OutputDir, SummaryFile }
                                 \cup ( IF cli.args.no_checkpoint
                                        THEN { CheckpointWrite } ELSE {} )
                                 \cup ( IF cli.urls = << >> THEN {} ELSE engine_effects ),
                   !.call = [ made |-> TRUE, urls |-> cli.urls,
                              resume |-> IF cli.args.no_checkpoint
                                         THEN FALSE ELSE cli.args.resume ] ]
    /\ UNCHANGED << engine, attachments >>

\* handle_discover_and_extract (lines 289-325): discovery, then the batch
\* engine with resume=True
HandleDiscover(found, save_urls, discovery_fails, engine_effects) ==
    /\ cli.pc = "discover-and-extract"
    /\ cli' =
         IF cli.args.dry_run THEN Exit(0)
         ELSE IF discovery_fails
         THEN [ Exit(1) EXCEPT !.effects = @ \cup { DiscoveryCall } ]
         ELSE LET us == capped(found, cli.args.max_articles)
              IN  [ Exit(0) EXCEPT
                       !.urls = us,
                       !.effects = @ \cup { DiscoveryCall, OutputDir, SummaryFile }
                                     \cup ( IF save_urls THEN { SavedUrls } ELSE {} )
                                     \cup ( IF us = << >> THEN {} ELSE engine_effects ),
                       !.call = [ made |-> TRUE, urls |-> us, resume |-> TRUE ] ]
    /\ UNCHANGED << engine, attachments >>

\* lines of a URLs file: entries with and without numbering, a comment, a blank line
SomeLines ==
    { << UrlChar >>, << Digit, Arrow, UrlChar >>, << Hash, UrlChar >>, << Space >> }

UrlsFiles ==
    { [ exists |-> FALSE, lines |-> << >> ] }
        \cup { [ exists |-> TRUE, lines |-> ls ] : ls \in SeqsOf(SomeLines, MaxLen) }

\* the command lines
CliArgs ==
    [ command : { "none", "single", "batch", "discover-and-extract" },
      dry_run : BOOLEAN, resume : BOOLEAN, no_checkpoint : BOOLEAN,
      max_articles : { 0, 1 }, config_file : { "absent", "valid", "broken" },
      urls_file : UrlsFiles ]

\* what discover_articles can return
FoundLists == SeqsOf({ << UrlChar >>, << UrlChar, UrlChar >> }, MaxLen)

\* the program is started with some command line
InitCli ==
    /\ InitState
    /\ InitNoGate
    /\ InitDefaults
    /\ FilesAfter({})
    /\ max_attempts = default_max_attempts
    /\ run_limit = 0
    /\ \E a \in CliArgs : cli = [ NewCli EXCEPT !.pc = "start", !.args = a ]
    /\ attachments = NoAttachments

\* every line of at most MaxLineLen characters
AllLines == SeqsOf(Chars, MaxLineLen)

\* handle_batch is about to load a URLs file of at most MaxLen lines
InitLoad ==
    /\ InitState
    /\ InitNoGate
    /\ InitDefaults
    /\ FilesAfter({})
    /\ max_attempts = default_max_attempts
    /\ run_limit = 0
    /\ \E ls \in SeqsOf(AllLines, MaxLen) :
          cli = [ NewCli EXCEPT
                    !.pc = "batch",
                    !.args = [ NoArgs EXCEPT !.command = "batch", !.dry_run = TRUE,
                                             !.urls_file = [ exists |-> TRUE, lines |-> ls ] ] ]
    /\ attachments = NoAttachments

\* the archive was downloaded into the archives directory and is about to be
\* extracted into the empty attachments directory
InitZip ==
    /\ InitState
    /\ InitNoGate
    /\ InitDefaults
    /\ FilesAfter({})
    /\ max_attempts = default_max_attempts
    /\ run_limit = 0
    /\ cli = NoCli
    /\ \E members \in Archives :
          attachments = [ NewAttachments EXCEPT !.pc = "extract", !.archive = members,
                                               !.archives = { DownloadedArchive } ]

\* ---------------------------------------------------------- specification
Next ==
    \/ \E us \in InputLists, r \in BOOLEAN, coe \in BOOLEAN : StartRun(us, r, coe)
    \/ SkipProcessed
    \/ SkipExtracted
    \/ BeginExtract
    \/ PortRaises
    \/ \E result \in Records : PortReturns(result)
    \/ BackoffDone
    \/ SaveOpen
    \/ SaveDump
    \/ RateLimitDone
    \/ LoopExhausted
    \/ Finalize
    \/ Kill
    \/ ClearCheckpoint
    \/ \E a \in ArticleIds : LegacyExtract(a)

NextRerun ==
    \/ Next
    \/ \E coe \in BOOLEAN : Rerun(coe)

NextLong ==
    \/ Next
    \/ \E us \in LongLists, r \in BOOLEAN, coe \in BOOLEAN : StartRun(us, r, coe)

NextTotals ==
    \/ Next
    \/ \E result \in RichRecords : PortReturns(result)

\* the engine alone, on lists that may hold the other language
NextAlias ==
    \/ \E us \in AliasLists, r \in BOOLEAN, coe \in BOOLEAN : StartRun(us, r, coe)
    \/ SkipProcessed
    \/ SkipExtracted
    \/ BeginExtract
    \/ PortRaises
    \/ \E result \in Records : PortReturns(result)
    \/ BackoffDone
    \/ SaveOpen
    \/ SaveDump
    \/ RateLimitDone
    \/ LoopExhausted
    \/ Finalize

\* the engine with records of known users, and a caller that uses one
\* BatchProcessor for more than one call
NextReuse ==
    \/ \E us \in InputLists, r \in BOOLEAN, coe \in BOOLEAN : StartRun(us, r, coe)
    \/ \E us \in InputLists, r \in BOOLEAN, coe \in BOOLEAN : CallAgain(us, r, coe)
    \/ SkipProcessed
    \/ SkipExtracted
    \/ BeginExtract
    \/ PortRaises
    \/ \E result \in RichRecords : PortReturns(result)
    \/ BackoffDone
    \/ SaveOpen
    \/ SaveDump
    \/ RateLimitDone
    \/ LoopExhausted
    \/ Finalize
    \/ \E a \in ArticleIds : LegacyExtract(a)

\* the steps of one call of process_urls once it was started: the coroutine
\* is the only task of the event loop, so each of its steps is taken; a sleep
\* ends, a write returns, and an invocation of the port returns or raises
LoopStep ==
    \/ SkipProcessed
    \/ SkipExtracted
    \/ BeginExtract
    \/ PortRaises
    \/ \E result \in Records : PortReturns(result)
    \/ BackoffDone
    \/ SaveOpen
    \/ SaveDump
    \/ RateLimitDone
    \/ LoopExhausted
    \/ Finalize

\* one call of process_urls that nothing interrupts, on an output tree the
\* legacy extractor may have written to before
NextLive ==
    \/ \E a \in ArticleIds : LegacyExtract(a)
    \/ \E us \in InputLists, r \in BOOLEAN, coe \in BOOLEAN : StartRun(us, r, coe)
    \/ LoopStep

NextGate == Validate

NextCli ==
    \/ CliStart
    \/ \E port_effects \in SUBSET { OutputTree }, failed \in BOOLEAN :
          HandleSingle(port_effects, failed)
    \/ HandleBatchLoad
    \/ \E engine_effects \in SUBSET EngineEffects : HandleBatchRun(engine_effects)
    \/ \E found \in FoundLists, save_urls \in BOOLEAN, discovery_fails \in BOOLEAN,
          engine_effects \in SUBSET EngineEffects :
          HandleDiscover(found, save_urls, discovery_fails, engine_effects)

NextLoad == HandleBatchLoad

NextZip ==
    \/ \E fails_at \in 0 .. MaxLen, target_opened \in BOOLEAN :
          ExtractZip(fails_at, target_opened)
    \/ \E duplicates \in SUBSET attachments.written : DeduplicateFiles(duplicates)
    \/ GenerateManifest

Spec == Init /\ [][Next]_vars

SpecAttempts == InitAttempts /\ [][Next]_vars

SpecFewAttempts == InitFewAttempts /\ [][Next]_vars

SpecAlias == InitAlias /\ [][NextAlias]_vars

SpecReuse == InitTotals /\ [][NextReuse]_vars

SpecLive == InitAttempts /\ [][NextLive]_vars /\ WF_vars(LoopStep)

SpecLeftover == InitLeftover /\ [][Next]_vars

SpecBackoff == InitBackoff /\ [][Next]_vars

SpecRerun == InitOneRun /\ [][NextRerun]_vars

SpecLong == InitOneRun /\ [][NextLong]_vars

SpecTotals == InitTotals /\ [][NextTotals]_vars

SpecReports == InitReports /\ [][NextTotals]_vars

SpecGate == InitGate /\ [][NextGate]_vars

SpecCli == InitCli /\ [][NextCli]_vars

SpecLoad == InitLoad /\ [][NextLoad]_vars

SpecZip == InitZip /\ [][NextZip]_vars

\* ======================================================================
\* Properties
\* ======================================================================
RunActive == pc \notin { "idle", "killed", "crashed" }

\* positions of the input list whose handling is over
Handled == 1 .. (IF idx - 1 <= Len(urls) THEN idx - 1 ELSE Len(urls))

\* the URL was complete when the run started: in the loaded checkpoint, or
\* its article is found in the output tree
Completed(u) == u \in ckpt_at_start \/ is_already_extracted(disk, extract_id_from_url(u))

OpenPositions == { j \in 1 .. Len(urls) : ~Completed(urls[j]) }

FirstOpen == CHOOSE j \in OpenPositions : \A k \in OpenPositions : j <= k

\* C1: in a run with resume=true, no URL of the loaded checkpoint is passed
\* to the Extraction Port, each handled position holding such a URL is
\* counted as skipped, and the first Extraction Port invocation of the run
\* is for the first URL in input order that is not already completed.
C1_ResumeSkipsCheckpointed ==
    (RunActive /\ resume) =>
        /\ called \cap ckpt_at_start = {}
        /\ stats.skipped >= Cardinality({ j \in Handled : urls[j] \in ckpt_at_start })
        /\ first_call # NoUrl =>
              /\ OpenPositions # {}
              /\ first_call = urls[FirstOpen]
        /\ (OpenPositions # {} /\ FirstOpen \in Handled) => first_call = urls[FirstOpen]

\* a resumed run has skipped a checkpointed URL and then invoked the port
C1_Witness ==
    /\ RunActive /\ resume
    /\ Len(urls) = 2
    /\ urls[1] \in ckpt_at_start
    /\ stats.skipped = 1
    /\ pc = "port"
    /\ first_call = urls[2]

\* C2: the checkpoint file is never seen half-written, and after a kill a
\* load of it gives every URL of the last checkpoint write that completed.
C2_CheckpointWriteAtomic ==
    /\ checkpoint_file.kind # "truncated"
    /\ pc = "killed" => last_complete \subseteq load_checkpoint(checkpoint_file)

\* C3: a URL whose extraction succeeded and whose output _save_results wrote,
\* but which is not in the checkpoint, is found by the disk probe of the
\* next run and so is not passed to the Extraction Port again.
C3_SavedOutputIsProbed ==
    ~ ( /\ pc = "port"
        /\ CurUrl \notin ckpt_at_start
        /\ extracted[CurUrl] > 0
        /\ MarkdownName(extract_id_from_url(CurUrl)) \in disk[extract_id_from_url(CurUrl)] )

\* C4: when a run ends without an early abort, resume true or false, the
\* completed set in the checkpoint file contains the one it held before the run.
C4_CheckpointGrowsMonotonically ==
    (pc = "finalize" /\ ~early_abort) =>
        ckpt_at_start \subseteq load_checkpoint(checkpoint_file)

Failures == { "ValidationError", "ExtractionError" }

\* C5: for every max_attempts >= 1, extract_article never invokes the port
\* more than max_attempts times; when the last of max_attempts invocations
\* raises, it raises the terminal ExtractionError instead of sleeping for
\* another attempt, and an ExtractionError is raised only after exactly
\* max_attempts invocations.
C5_RetryTermination ==
    /\ calls_item <= max_attempts
    /\ last_outcome = "ExtractionError" => calls_item = max_attempts
    /\ (port_result = "raised" /\ calls_item = max_attempts) =>
            (last_outcome = "ExtractionError" /\ pc # "backoff")
    /\ pc = "backoff" => calls_item < max_attempts
    /\ pc # "crashed"

\* under the largest retry policy every attempt of an item raised and the
\* item ended in ExtractionError
C5_Witness ==
    /\ max_attempts = MaxAttempts
    /\ last_outcome = "ExtractionError"
    /\ calls_item = max_attempts
    /\ port_result = "raised"
    /\ stats.failed = 1

\* after a rejected record: the item is a ValidationError, the process is
\* neither in the port nor in a backoff sleep, and the last entry of the
\* failures list is this URL with the reason of the rejection
C6_RejectedState ==
    port_result = "rejected" =>
        /\ last_outcome = "ValidationError"
        /\ pc \notin { "port", "backoff" }
        /\ stats.failed = Len(failed_articles)
        /\ Len(failed_articles) >= 1
        /\ failed_articles[Len(failed_articles)].url = CurUrl
        /\ failed_articles[Len(failed_articles)].error \in ValidationReasons

\* the step in which a record is rejected: it ends a port invocation, starts
\* none, and increments the failed counter alone
C6_RejectedStep ==
    (port_result' = "rejected" /\ port_result # "rejected") =>
        /\ pc = "port"
        /\ calls_item' = calls_item
        /\ stats'.failed = stats.failed + 1
        /\ stats'.successful = stats.successful
        /\ stats'.skipped = stats.skipped

\* C6: a record that fails validation ends extract_article at once with a
\* ValidationError, whatever the attempt number: no backoff sleep and no
\* further port invocation for the item, and process_urls counts the item as
\* failed with the rejection reason.
C6_ValidationNotRetried == [] C6_RejectedState /\ [][C6_RejectedStep]_vars

\* a record is rejected on the second attempt, with attempts to spare
C6_Witness ==
    /\ port_result = "rejected"
    /\ calls_item = 2
    /\ calls_item < max_attempts
    /\ stats.failed = 1

\* C7: a URL whose outcome is a rejection or a retry-exhausted failure is not
\* put into processed_urls, and the checkpoint written after it does not hold
\* it; a run skips only URLs that were completed, so every handled position
\* of a resumed run whose URL is neither in the loaded checkpoint nor found
\* on disk was passed to the Extraction Port.
C7_FailedNotCompleted ==
    /\ last_outcome \in Failures =>
          /\ CurUrl \notin processed_urls
          /\ pc = "rate" => CurUrl \notin load_checkpoint(checkpoint_file)
    /\ (RunActive /\ resume) =>
          \A j \in Handled : Completed(urls[j]) \/ urls[j] \in called

\* a resumed run invokes the port for a URL that an earlier run counted as failed
C7_Witness ==
    /\ run_no = 2
    /\ resume
    /\ pc = "port"
    /\ idx = 1
    /\ CurUrl \in ever_failed
    /\ extracted[CurUrl] = 0
    /\ checkpoint_file.kind = "complete"

\* C8: no URL in the completed set of the checkpoint file has been extracted
\* successfully more than once in the history of runs.
C8_CompletedExtractedOnce ==
    \A u \in load_checkpoint(checkpoint_file) : extracted[u] <= 1

\* C9: during a run successful + failed + skipped <= total, and they are
\* equal when the run has ended without an early abort.
C9_CountersWithinTotal ==
    RunActive =>
        /\ stats.total = Len(urls)
        /\ Counted(stats) <= stats.total
        /\ (pc \in { "finalize", "returned" } /\ ~early_abort) => Counted(stats) = stats.total

\* a run of two items has returned with one success and one failure
C9_Witness ==
    /\ pc = "returned"
    /\ ~early_abort
    /\ stats.total = 2
    /\ stats.successful = 1
    /\ stats.failed = 1

\* with continue_on_error disabled a failure is the break; after the break
\* the run is at its end with the failed item as the last one counted
C10_AbortState ==
    /\ (RunActive /\ ~continue_on_error /\ stats.failed > 0) => early_abort
    /\ early_abort =>
          /\ ~continue_on_error
          /\ pc \in { "finalize", "returned" }
          /\ last_outcome \in Failures
          /\ stats.failed = 1
          /\ Counted(stats) = idx
          /\ idx < Len(urls) => Counted(stats) < stats.total
          /\ port_result # "pending"

\* the break and the steps after it: no checkpoint write, no port
\* invocation, no addition to processed_urls, no further counting
C10_AbortStep ==
    (early_abort' /\ pc' \in { "finalize", "returned" } /\ pc # "returned") =>
        /\ checkpoint_file' = checkpoint_file
        /\ early_abort => (stats' = stats /\ called' = called /\ processed_urls' = processed_urls)
        /\ ~early_abort => (called' = called /\ processed_urls' = processed_urls)

\* C10: with continue_on_error disabled a failed item ends the loop at once:
\* the run goes straight to its end with the failed item as the last one
\* counted, so the counters stay below total unless it was the last item,
\* and nothing is passed to the port or written to the checkpoint after it.
C10_StopOnError == [] C10_AbortState /\ [][C10_AbortStep]_vars

\* a run has returned after the break, with an item of the list left untouched
C10_Witness ==
    /\ early_abort
    /\ pc = "returned"
    /\ idx < Len(urls)
    /\ Counted(stats) < stats.total

\* the run repeats, with resume=true, the run before it
IsRerun == prior.kind # "none"

\* nothing is passed to the port and every item of the list is skipped
SkipsEverything ==
    /\ pc \in { "loop", "finalize", "returned" }
    /\ called = {}
    /\ stats.total = Len(urls)
    /\ stats.skipped = Cardinality(Handled)
    /\ pc \in { "finalize", "returned" } => stats.skipped = stats.total

\* C11 as stated: a run on a list followed by a run with resume=true on the
\* same list gives, in the second run, skipped = total and no Extraction Port
\* invocation.
C11_RerunSkipsEverything == IsRerun => SkipsEverything

\* C11: when a run on a list has returned with no failed item, a following
\* run with resume=true on the same list, over the checkpoint that run left,
\* gives skipped = total and no Extraction Port invocation.
C11_RerunOfCompleteRunSkipsEverything == prior.kind = "complete" => SkipsEverything

\* the repetition of a run that extracted two articles has returned with
\* both skipped
C11_Witness ==
    /\ prior.kind = "complete"
    /\ pc = "returned"
    /\ stats.total = 2
    /\ stats.skipped = 2
    /\ urls[1] # urls[2]
    /\ \A j \in 1 .. 2 : extracted[urls[j]] = 1
    /\ load_checkpoint(checkpoint_file) = URLS

\* positions of the list for which the Extraction Port was invoked and whose
\* handling has ended in success, rejection or retry exhaustion
Attempted ==
    { j \in 1 .. Len(outcomes) : outcomes[j] \in { "success" } \cup Failures }

\* the position is the current one and its checkpoint write is under way
BeingSaved(j) == j = idx /\ pc \in { "save_item", "dump_item" }

\* C12: for every item for which the Extraction Port was invoked, whatever
\* its outcome, a checkpoint write is completed before the loop moves on or
\* ends, also when continue_on_error is false and the failure ends the loop.
C12_AttemptedItemIsCheckpointed ==
    \A j \in Attempted : j \in written \/ BeingSaved(j)

\* the item at idx is not handled yet, or is with the port
BeforeOutcome == pc \in { "loop", "port", "backoff" }

\* the item at idx has its outcome and the checkpoint write or the rate
\* limit sleep that follows it is under way
AfterOutcome == pc \in { "save_skip", "dump_skip", "save_item", "dump_item", "rate" }

Succeeded == { j \in 1 .. Len(outcomes) : outcomes[j] = "success" }

\* C13: items are handled in input order, one outcome per position; when
\* the loop is at an item, the checkpoint write of every attempted item
\* before it is complete; and the checkpoint file never holds the success of
\* a later item of the run without that of an earlier one.
C13_InOrderAndCheckpointedBeforeNext ==
    /\ BeforeOutcome => Len(outcomes) = idx - 1
    /\ AfterOutcome => Len(outcomes) = idx
    /\ pc \in { "port", "backoff" } => (idx \in 1 .. Len(urls) /\ CurUrl \in called)
    /\ BeforeOutcome => Attempted \subseteq written
    /\ (BeforeOutcome \/ AfterOutcome \/ pc = "finalize") =>
          \A j \in Succeeded, k \in Succeeded :
              (j < k /\ urls[k] \in load_checkpoint(checkpoint_file))
                  => urls[j] \in load_checkpoint(checkpoint_file)

\* two different articles were extracted in turn and the checkpoint file
\* holds both
C13_Witness ==
    /\ pc = "loop"
    /\ outcomes = << "success", "success" >>
    /\ urls[1] # urls[2]
    /\ written = { 1, 2 }
    /\ load_checkpoint(checkpoint_file) = { urls[1], urls[2] }

\* C14: when the Extraction Port is invoked for an item, no earlier item of
\* the run has left the port since without a rate limit sleep having been
\* taken in between, skipped items or not; and every rate limit sleep lasts
\* rate_limit_seconds.
C14_RateLimitBetweenAttemptedItems ==
    /\ pc \in { "port", "backoff" } => rate_waits # 0
    /\ pc = "rate" => sleeping = rate_limit_seconds

\* an attempted item, then a skipped one, then the port again after one sleep
C14_Witness ==
    /\ pc = "port"
    /\ idx = 3
    /\ Len(outcomes) = 2
    /\ outcomes[1] \notin { "in_checkpoint", "on_disk" }
    /\ outcomes[2] \in { "in_checkpoint", "on_disk" }
    /\ rate_waits = 1

\* b to the power k, by repeated multiplication
RECURSIVE power(_, _)
power(b, k) == IF k = 0 THEN 1 ELSE b * power(b, k - 1)

\* C15: the sleep after failed attempt n lasts
\* min(initial_backoff_seconds * exponential_base^(n-1), max_backoff_seconds),
\* which is never more than max_backoff_seconds; under the default policy that
\* is 5, 10, 20 seconds after attempts 1, 2, 3 and 60 seconds after attempt 10.
C15_BackoffIsCappedExponential ==
    pc = "backoff" =>
        LET uncapped == retry.initial_backoff_seconds
                            * power(retry.exponential_base, attempt - 1)
        IN  /\ attempt \in 1 .. max_attempts
            /\ sleeping = IF uncapped <= retry.max_backoff_seconds
                          THEN uncapped ELSE retry.max_backoff_seconds
            /\ sleeping <= retry.max_backoff_seconds
            /\ retry = RetryDefaults =>
                  /\ attempt = 1 => sleeping = 5
                  /\ attempt = 2 => sleeping = 10
                  /\ attempt = 3 => sleeping = 20
                  /\ attempt = 10 => sleeping = 60

\* the default policy sleeps 60 seconds after the tenth failed attempt
C15_Witness ==
    /\ pc = "backoff"
    /\ retry = RetryDefaults
    /\ attempt = 10
    /\ sleeping = 60

\* the record meets the four conditions of acceptance
MeetsAllRules(v, r) ==
    /\ r.success
    /\ r.word_count >= v.min_word_count
    /\ r.code_blocks >= v.min_code_blocks
    /\ ~(has_login_text(r.main_content) /\ r.word_count < login_popup_word_limit)

\* C16: _validate_extraction accepts a record if and only if its success flag
\* is true, its word count is at least min_word_count, its code-block count is
\* at least min_code_blocks, and its body does not contain both "login" and
\* "password" (in any case) with fewer than 200 words; with threshold 500 a
\* record of 499 words is rejected and one of 500 words is accepted, all else
\* equal.
C16_AcceptsIffAllRulesHold ==
    val_outcome # NotValidated =>
        /\ (val_outcome = Passed) <=> MeetsAllRules(validation, val_record)
        /\ (validation.min_word_count = 500 /\ val_record.word_count = 499)
              => val_outcome.kind = "ValidationError"
        /\ ( /\ validation.min_word_count = 500
             /\ val_record.word_count = 500
             /\ val_record.success
             /\ val_record.code_blocks >= validation.min_code_blocks )
              => val_outcome = Passed

\* the first rule the record fails, in the order success flag, word count,
\* code-block count, login-wall heuristic
FirstFailingRule(v, r) ==
    IF ~r.success THEN "success"
    ELSE IF r.word_count < v.min_word_count THEN "word_count"
    ELSE IF r.code_blocks < v.min_code_blocks THEN "code_blocks"
    ELSE IF has_login_text(r.main_content) /\ r.word_count < login_popup_word_limit
    THEN "login"
    ELSE "none"

\* the rule a rejection reason speaks of
RuleNamed(message) ==
    CASE message[1] = "Extraction marked as unsuccessful" -> "success"
      [] message[1] = "Word count" -> "word_count"
      [] message[1] = "Code blocks" -> "code_blocks"
      [] message[1] = "Content appears to be login popup" -> "login"
      [] OTHER -> "none"

\* the reason gives the observed and the required value
GivesValues(message, observed, required) ==
    /\ Len(message) = 4
    /\ message[2] = observed
    /\ message[4] = required

\* C17: the reason of a rejection is that of the first rule the record fails,
\* in the order success flag, word count, code-block count, login-wall
\* heuristic, and it names the rule with the observed and the required value
\* (for the success flag, which is either set or not, naming it says both).
C17_ReasonIsFirstFailingRuleWithValues ==
    (val_outcome # NotValidated /\ val_outcome.kind = "ValidationError") =>
        LET rule == FirstFailingRule(validation, val_record)
            message == val_outcome.message
        IN  /\ RuleNamed(message) = rule
            /\ rule = "word_count" =>
                  GivesValues(message, val_record.word_count, validation.min_word_count)
            /\ rule = "code_blocks" =>
                  GivesValues(message, val_record.code_blocks, validation.min_code_blocks)
            /\ rule = "login" =>
                  GivesValues(message, val_record.word_count, login_popup_word_limit)

\* process_urls has ended with the exception of line 95
RaisedAtLoad == pc = "crashed" /\ idx = 0

\* C18: a run that finds the checkpoint file missing or holding something
\* that is not a checkpoint does not end with an exception at the load, and
\* enters its loop with an empty set of processed URLs.
C18_CheckpointLoadNeverRaises ==
    (run_no > 0 /\ ckpt_at_start = {}) =>
        /\ ~RaisedAtLoad
        /\ (pc = "loop" /\ idx = 1 /\ outcomes = << >>) => processed_urls = {}

\* the URL at position j was complete when the loop came to it: in the
\* checkpoint the run loaded, extracted with success at an earlier position
\* of the run, or found in the output tree by the disk probe
AlreadyCompleted(j) ==
    \/ resume /\ urls[j] \in ckpt_at_start
    \/ \E k \in Succeeded : k < j /\ urls[k] = urls[j]
    \/ is_already_extracted(disk, extract_id_from_url(urls[j]))

Positions == 1 .. Len(urls)

C20_ResumeAfterAbort ==
    /\ (pc = "finalize" /\ early_abort) =>
          load_checkpoint(checkpoint_file) =
              (IF written # {} THEN processed_urls ELSE ckpt_at_start)
    /\ prior.kind = "aborted" =>
          /\ called \cap prior.succeeded = {}
          /\ first_call # NoUrl => first_call = urls[prior.stopped_at]
          /\ pc \in { "finalize", "returned" } => first_call # NoUrl

\* C21: when the record of an item is rejected by _validate_extraction, no
\* article output of the item (metadata or markdown file) is in the output
\* tree, unless an earlier successful extraction or the legacy extractor put
\* it there.
C21_RejectedRecordLeavesNoOutput ==
    ( /\ port_result = "rejected"
      /\ extracted[CurUrl] = 0
      /\ LegacyMarkdownName \notin disk[extract_id_from_url(CurUrl)] )
        => disk[extract_id_from_url(CurUrl)] = {}

\* the sum of f[i] over the sequence f of numbers
RECURSIVE SumSeq(_)
SumSeq(f) == IF f = << >> THEN 0 ELSE Head(f) + SumSeq(Tail(f))

HasLocalCopy(image) == image.local_path # NoPath

\* C22: at the end of a run total_words, total_code_blocks and total_images
\* are the sums, over the records that succeeded, of the word count, the
\* number of code blocks and the number of images with a local copy; the
\* users are the distinct user ids of those records but "unknown"; there is
\* one such record per item counted successful, none for a skipped or failed
\* item; and the list of users returned holds each user once.
C22_ContentTotalsAreSumsOverSuccesses ==
    pc \in { "finalize", "returned" } =>
        /\ Len(accepted) = stats.successful
        /\ Len(accepted) = Cardinality({ j \in 1 .. Len(outcomes) : outcomes[j] = "success" })
        /\ content_stats.total_words =
              SumSeq([ i \in 1 .. Len(accepted) |-> accepted[i].word_count ])
        /\ content_stats.total_code_blocks =
              SumSeq([ i \in 1 .. Len(accepted) |-> accepted[i].code_blocks ])
        /\ content_stats.total_images =
              SumSeq([ i \in 1 .. Len(accepted) |->
                          Len(SelectSeq(accepted[i].images, HasLocalCopy)) ])
        /\ content_stats.users =
              { accepted[i].user_id : i \in 1 .. Len(accepted) } \ { "unknown" }
        /\ pc = "returned" =>
              /\ { users_report[i] : i \in 1 .. Len(users_report) } = content_stats.users
              /\ Len(users_report) = Cardinality(content_stats.users)

\* a failed item, then an article with two images, one of them downloaded:
\* the run returns the totals of the one success
C22_Witness ==
    /\ pc = "returned"
    /\ outcomes = << "ExtractionError", "success" >>
    /\ accepted = << [ word_count |-> 600, code_blocks |-> 2, user_id |-> "777",
                       images |-> << LocalImage, FailedImage >> ] >>
    /\ content_stats = [ total_words |-> 600, total_images |-> 1,
                         total_code_blocks |-> 2, users |-> { "777" },
                         users_is_list |-> TRUE ]

\* C27: two runs that saw the same users return the same list of users.
C27_UsersListIsOrderIndependent ==
    \A a \in reports, b \in reports :
        { a[i] : i \in 1 .. Len(a) } = { b[i] : i \in 1 .. Len(b) } => a = b

\* C23: at most one Extraction Port invocation is outstanding at any moment,
\* and while one is outstanding the process does nothing but wait for it.
C23_OneOutstandingInvocation ==
    /\ outstanding \in { 0, 1 }
    /\ outstanding = 1 <=> pc = "port"
    /\ outstanding = 1 <=> port_result = "pending"

\* the retry of an item is outstanding, after the first invocation raised
C23_Witness ==
    /\ pc = "port"
    /\ outstanding = 1
    /\ calls_item = 2
    /\ idx = 2

\* C24: the command batch, given an existing URLs file, a configuration that
\* loads and no --dry-run, ends after having called process_urls on the
\* loaded, capped list with resume as --resume says (false under
\* --no-checkpoint), and not with the exit code of a fatal error.
C24_BatchCommandRunsEngine ==
    ( /\ cli.pc = "exited"
      /\ cli.args.command = "batch"
      /\ cli.args.urls_file.exists
      /\ ~cli.args.dry_run
      /\ cli.args.config_file # "broken" )
        => /\ cli.call = [ made |-> TRUE,
                           urls |-> capped(load_urls(cli.args.urls_file.lines),
                                           cli.args.max_articles),
                           resume |-> IF cli.args.no_checkpoint
                                      THEN FALSE ELSE cli.args.resume ]
           /\ cli.exit_code # 1

\* C25: under --dry-run no command invokes the Extraction Port or discovery,
\* calls process_urls, or touches the output tree, the checkpoint file or the
\* log file.
C25_DryRunChangesNothing ==
    cli.args.dry_run => (cli.effects = {} /\ ~cli.call.made)

\* batch --dry-run has ended after reporting the two URLs it loaded
C25_Witness ==
    /\ cli.pc = "exited"
    /\ cli.exit_code = 0
    /\ cli.args.dry_run
    /\ cli.args.command = "batch"
    /\ Len(cli.urls) = 2
    /\ cli.effects = {}

\* the command line has a fatal configuration error
FatalConfiguration ==
    /\ cli.args.command # "none"
    /\ \/ cli.args.config_file = "broken"
       \/ cli.args.command = "batch" /\ ~cli.args.urls_file.exists

\* C26: with a config file that does not load, or with the URLs file of
\* batch missing, the program gets no further than the check, ends with exit
\* code 1, and has by then invoked neither the Extraction Port nor discovery
\* and written neither checkpoint nor output.
C26_FatalConfigurationExitsFirst ==
    FatalConfiguration =>
        /\ cli.pc \in { "start", "batch", "exited" }
        /\ cli.args.config_file = "broken" => cli.pc \in { "start", "exited" }
        /\ cli.pc = "exited" => cli.exit_code = 1
        /\ cli.effects \subseteq { LogFile }
        /\ ~cli.call.made

\* batch has ended with exit code 1 on a missing URLs file, after the log
\* file was opened
C26_Witness ==
    /\ cli.pc = "exited"
    /\ cli.exit_code = 1
    /\ cli.args.command = "batch"
    /\ cli.args.config_file = "valid"
    /\ ~cli.args.urls_file.exists
    /\ cli.effects = { LogFile }

\* str(attempt), as an f-string would put the attempt number into a message
str(n) == ToString(n)

\* C28: when all attempts for an item are exhausted, the terminal failure
\* raised by extract_article (recorded by process_urls as the item's error)
\* carries the last underlying error and the number of attempts made
C28_TerminalFailureCarriesErrorAndAttempts ==
    ( /\ last_outcome = "ExtractionError"
      /\ Len(failed_articles) >= 1 )
        => LET error == failed_articles[Len(failed_articles)].error
           IN  /\ Len(error) = 3
               /\ error[3] = PortError
               /\ \E i \in 1..2 : error[i] = str(calls_item)

\* the digits a line starts with are a numbering "N" when an arrow follows them
RECURSIVE after_digits(_)
after_digits(l) == IF l # << >> /\ Head(l) = Digit THEN after_digits(Tail(l)) ELSE l

has_numbering_prefix(l) ==
    /\ l # << >>
    /\ Head(l) = Digit
    /\ after_digits(l) # << >>
    /\ Head(after_digits(l)) = Arrow

\* the URL of a line: the line without its numbering prefix, if it has one
url_of_line(l) == IF has_numbering_prefix(l) THEN Tail(after_digits(l)) ELSE l

\* the lines of a file that are neither blank nor a '#' comment, in file order
content_lines(lines) ==
    SelectSeq([ i \in DOMAIN lines |-> strip(lines[i]) ],
              LAMBDA l : l # << >> /\ Head(l) # Hash)

\* C29: load_urls returns, in file order, exactly one entry for each line
\* that is neither blank nor a '#' comment, each entry being the line's URL
\* with an optional "N->" numbering prefix removed
C29_LoadUrlsReturnsTheUrlsOfTheLines ==
    cli.pc = "batch loaded"
        => LET kept == content_lines(cli.args.urls_file.lines)
           IN  /\ Len(cli.urls) = Len(kept)
               /\ \A i \in DOMAIN kept : cli.urls[i] = url_of_line(kept[i])

\* the extension of a written file, compared without regard to case
extension_of(f) == lowered(splitext_ext(f.filename))

\* C30: for every archive content, extract_zip_safely writes no file whose
\* extension is a binary executable extension (.ex5, .ex4, .dll, .exe, .bin,
\* .dat) or lies outside the download categories, so the generated manifest
\* lists no binary file
C30_NoBinaryIsExtracted ==
    /\ attachments.pc \in { "deduplicate", "manifest", "done" } =>
            \A f \in attachments.written :
                /\ extension_of(f) \notin SKIP_EXTENSIONS
                /\ extension_of(f) \in DownloadExtensions
    /\ attachments.pc = "done" =>
            \A entry \in attachments.files :
                lowered(<< Dot >> \o entry.file_type) \notin SKIP_EXTENSIONS

\* an archive with a binary member next to a source file was extracted, the
\* source file written, and the manifest lists it
C30_Witness ==
    /\ attachments.pc = "done"
    /\ \E i \in DOMAIN attachments.archive :
            lowered(splitext_ext(attachments.archive[i])) \in SKIP_EXTENSIONS
    /\ \E entry \in attachments.files : entry.file_type = << "mq5" >>

\* the item at position j was attempted: its handling ended in success,
\* rejection or retry exhaustion
WasAttempted(os, j) == os[j] \in { "success" } \cup Failures

\* the process is in the rate limit sleep only after an attempted item that
\* is not the last of the list, in a run that goes on
C31_RateState ==
    pc = "rate" =>
        /\ idx < Len(urls)
        /\ Len(outcomes) = idx
        /\ WasAttempted(outcomes, idx)
        /\ ~early_abort
        /\ sleeping = rate_limit_seconds

\* the sleep is entered for the current item and left for the next one; the
\* loop leaves an item through the sleep exactly when the item was attempted
\* and is not the last; the loop never ends through the sleep
C31_RateStep ==
    /\ (pc # "rate" /\ pc' = "rate") => (pc = "dump_item" /\ idx' = idx)
    /\ (pc = "rate" /\ pc' # "rate") => (pc' = "killed" \/ (pc' = "loop" /\ idx' = idx + 1))
    /\ (pc \notin IdlePcs /\ idx' = idx + 1) =>
          ((pc = "rate") <=> (idx < Len(urls) /\ WasAttempted(outcomes', idx)))
    /\ (pc # "finalize" /\ pc' = "finalize") => pc # "rate"

\* C31: the rate-limiter wait is invoked exactly once after each item that
\* was attempted (success, rejection or continued failure) and is not at the
\* last position of the input list; it is never invoked after a skipped
\* item, after the item at the last position, or after a failure that aborts
\* the run
C31_RateLimitAfterAttemptedItems == [] C31_RateState /\ [][C31_RateStep]_vars

\* a skipped item, then a rejected one in the middle of the list, and the
\* sleep that follows it
C31_Witness ==
    /\ pc = "rate"
    /\ idx = 2
    /\ Len(urls) = 3
    /\ outcomes[1] \in { "in_checkpoint", "on_disk" }
    /\ outcomes[2] = "ValidationError"

\* the process is in a backoff sleep only after a failed attempt that is not
\* the last one, for the time that attempt asks for
C32_BackoffState ==
    pc = "backoff" =>
        /\ port_result = "raised"
        /\ attempt = calls_item
        /\ attempt < max_attempts
        /\ sleeping = backoff(retry, attempt)

\* an attempt is followed by the sleep exactly when it failed with an error
\* that is not a rejection and attempts remain; the sleep is left for the
\* next attempt alone; and every attempt but the first follows a sleep
C32_BackoffStep ==
    /\ (pc = "port" /\ pc' # "port") =>
          ((pc' = "backoff") <=> (port_result' = "raised" /\ attempt < max_attempts))
    /\ (pc # "backoff" /\ pc' = "backoff") =>
          (pc = "port" /\ attempt' = attempt /\ sleeping' = backoff(retry, attempt))
    /\ (pc = "backoff" /\ pc' # "backoff") =>
          \/ pc' = "killed"
          \/ (pc' = "port" /\ attempt' = attempt + 1 /\ calls_item' = calls_item + 1)
    /\ (pc' = "port" /\ pc # "port" /\ attempt' > 1) => pc = "backoff"
    /\ (port_result' = "accepted" /\ port_result # "accepted") => pc' # "backoff"

\* C32: within one item, when attempt n fails with a non-validation error
\* and n < max_attempts, exactly one sleep of backoff(n) occurs before
\* attempt n+1; no backoff sleep occurs after a successful attempt or after
\* the failure of attempt max_attempts
C32_OneBackoffBetweenAttempts == [] C32_BackoffState /\ [][C32_BackoffStep]_vars

\* the second of three attempts failed and its sleep is under way
C32_Witness ==
    /\ pc = "backoff"
    /\ attempt = 2
    /\ max_attempts = 3
    /\ sleeping = 10

\* the handled positions of the run whose item was counted as failed, in order
FailedPositions ==
    SelectSeq([ j \in 1 .. Len(outcomes) |-> j ], LAMBDA j : outcomes[j] \in Failures)

\* the error of a failures entry is that of the outcome of the position
ErrorOf(entry, outcome) ==
    IF outcome = "ValidationError" THEN entry.error \in ValidationReasons
    ELSE /\ Len(entry.error) = 3
         /\ entry.error[2] = entry.article_id
         /\ entry.error[3] = PortError

\* C33: at every point of a run the length of the failures list equals the
\* failed counter, and the list holds, in processing order, one entry
\* {identifier, target, error} for each item counted as failed
C33_FailuresListMatchesCounter ==
    RunActive =>
        /\ Len(failed_articles) = stats.failed
        /\ Len(failed_articles) = Len(FailedPositions)
        /\ \A k \in 1 .. Len(FailedPositions) :
              LET entry == failed_articles[k]
                  j == FailedPositions[k]
              IN  /\ DOMAIN entry = { "article_id", "url", "error" }
                  /\ entry.url = urls[j]
                  /\ entry.article_id = extract_id_from_url(urls[j])
                  /\ ErrorOf(entry, outcomes[j])

\* a run of two different items, the first rejected and the second failed
\* after the retries, has returned
C33_Witness ==
    /\ pc = "returned"
    /\ outcomes = << "ValidationError", "ExtractionError" >>
    /\ urls[1] # urls[2]
    /\ stats.failed = 2
    /\ Len(failed_articles) = 2

\* C34: for every configured max_attempts (including 0 and negative values)
\* extract_article either returns a record that passed validation or raises
\* ExtractionError or ValidationError; it never returns without a record, so
\* process_urls never counts an item as successful without a validated record
C34_ExtractArticleReturnsRecordOrRaises ==
    /\ last_outcome \in { "none", "success" } \cup Failures
    /\ last_outcome = "success" => port_result = "accepted"
    /\ RunActive => stats.successful = Len(accepted)

\* output produced for the URL exists: the legacy extractor or the engine
\* has saved the article of this URL
OutputProducedFor(u) == u = LegacyUrl \/ extracted[u] > 0

\* C35: an item is skipped by the disk probe only if output produced for
\* that same URL exists: two distinct URLs (for example ones that share an
\* article id) are never confused, so the existence of output for one never
\* causes the other to be skipped and added to the checkpoint
C35_ProbeSkipsOnlyOwnOutput ==
    \A j \in 1 .. Len(outcomes) :
        outcomes[j] = "on_disk" => OutputProducedFor(urls[j])

\* lines 233-237: the counters _save_checkpoint stores in the file
saved_counters(s) ==
    [ successful |-> s.successful, failed |-> s.failed, skipped |-> s.skipped ]

\* the counters of a run that has handled the positions 1 .. w of its list
\* with the outcomes os, starting from zero
CountersAfter(os, w) ==
    LET n(kinds) == Cardinality({ j \in 1 .. w : os[j] \in kinds })
    IN  [ successful |-> n({ "success" }), failed |-> n(Failures),
          skipped |-> n({ "in_checkpoint", "on_disk" }) ]

\* the position after which the checkpoint file was last written in this run
LastWritten == CHOOSE w \in written : \A v \in written : v <= w

\* the counters are those of the outcomes so far, so the file written after
\* position w holds CountersAfter(outcomes, w)
CountersFollowOutcomes ==
    (RunActive /\ pc # "idle") => saved_counters(stats) = CountersAfter(outcomes, Len(outcomes))

\* C36: when a run of process_urls ends (by exhaustion or by abort) and the
\* checkpoint file exists, the successful, failed and skipped counters stored
\* in the checkpoint file equal the counters in the returned statistics
\* (stated for the runs that wrote the file; the file of a run that wrote
\* none is the one an earlier run left)
C36_CheckpointCountersMatchStatistics ==
    ( /\ pc = "returned"
      /\ written # {}
      /\ checkpoint_file.kind = "complete" )
        => CountersAfter(outcomes, LastWritten) = saved_counters(stats)

\* C37: statistics are scoped to one run: when process_urls is called a
\* second time on the same BatchProcessor, the call completes and its
\* returned counters and failures list describe only the items of that
\* second call, so successful + failed + skipped <= total still holds
\* (where one run is started on a new BatchProcessor, a run after the first
\* is a further call on that object)
C37_StatisticsAreScopedToOneCall ==
    run_no >= 2 =>
        /\ pc # "crashed"
        /\ RunActive =>
              /\ Counted(stats) <= stats.total
              /\ saved_counters(stats) = CountersAfter(outcomes, Len(outcomes))
              /\ Len(failed_articles) = Len(FailedPositions)

\* C38: for every input list, every max_attempts >= 1 and every behaviour of
\* the port in which each invocation returns or raises, a call of
\* process_urls that entered its loop ends by returning finalized
\* statistics, and no item has the port invoked more than max_attempts
\* times; an item that is skipped has it invoked not at all
C38_CallsBounded ==
    /\ calls_item <= max_attempts
    /\ \A j \in 1 .. Len(outcomes) :
          ~WasAttempted(outcomes, j) =>
              \/ urls[j] \notin called
              \/ \E k \in 1 .. Len(outcomes) : k # j /\ urls[k] = urls[j]
    /\ pc = "returned" => content_stats.users_is_list

C38_ProcessUrlsTerminates ==
    /\ (pc = "loop") ~> (pc = "returned")
    /\ [] C38_CallsBounded

\* a call on a list of two or more ended and returned after its first item
\* had failed max_attempts times under the largest retry policy
C38_Witness ==
    /\ pc = "returned"
    /\ content_stats.users_is_list
    /\ max_attempts = MaxAttempts
    /\ Len(urls) >= 2
    /\ Len(outcomes) = Len(urls)
    /\ outcomes[1] = "ExtractionError"
    /\ calls_item <= max_attempts

==============================================================================
